---- MODULE Spec2Model ----
(***************************************************************************)
(* Verification model of comrade-pavlik2: a private npm/composer registry  *)
(* in front of a GitLab instance.                                          *)
(*                                                                         *)
(* Strings that the code formats or parses (cache keys, base64 text, tag   *)
(* names) are sequences of characters, a character being a TLA+ string or  *)
(* a small integer; byte slices are sequences of integers 0..255.          *)
(* An optional value is a sequence of length 0 (nil) or 1.                 *)
(***************************************************************************)
EXTENDS Integers, Sequences, FiniteSets, TLC

VARIABLES
    client,        \* gitlab.Client under test (nil or one client)
    last,          \* the last call made on it
    clientCache,   \* client.globalCache: key -> value
    archiveCache,  \* helpers.globalCache: key -> value
    now,           \* the wall clock, in minutes
    conns          \* the connections of the requests in flight

vars == <<client, last, clientCache, archiveCache, now, conns>>

clientVars == <<client, last>>

cacheVars == <<clientCache, archiveCache, now, conns>>

Nil == <<>>

Some(x) == <<x>>

(***************************************************************************)
(* Upstream answers, as the HTTP library hands them to the client.         *)
(* t = "neterr": no response; t = "redirect": a 302 with a Location, which *)
(* the HTTP library (resty, default NoRedirectPolicy) does not follow: the *)
(* request ends with the 302 response and an error; t = "resp": a response *)
(* with a status, a body and the two pagination headers.                   *)
(* A header value is "" (absent), a number, or "bad" (not a number).       *)
(***************************************************************************)
Body(k, v) == [k |-> k, v |-> v]

BodyEmpty == Body("empty", <<>>)

BodyHtml == Body("html", <<>>)

Answer(t, status, body, next, total) ==
    [t |-> t, status |-> status, body |-> body, next |-> next, total |-> total]

NetErr == Answer("neterr", 0, BodyEmpty, "", "")

Redirect == Answer("redirect", 302, BodyEmpty, "", "")

Resp(status, body) == Answer("resp", status, body, "", "")

\* executeHead if the HTTP library followed the redirect to a sign-in page
\* that answers 200
executeHeadFollowing(ans) ==
    [err |-> ans.t = "neterr",
     status |-> IF ans.t = "neterr" THEN 0 ELSE IF ans.t = "redirect" THEN 200 ELSE ans.status]

\* what executeHead/executeGet return: the response and the transport error
executeHead(ans) ==
    [err |-> ans.t # "resp",
     status |-> IF ans.t = "neterr" THEN 0 ELSE ans.status]

executeGet(ans) ==
    [err |-> ans.t # "resp",
     status |-> IF ans.t = "neterr" THEN 0 ELSE ans.status,
     body |-> ans.body, next |-> ans.next, total |-> ans.total]

(***************************************************************************)
(* gitlab.NewClient / Client.guessAPIVersion                               *)
(***************************************************************************)
ErrGitLabInvalidToken == "Invalid Token"

ErrGitLabInvalidEndpoint == "Invalid GitLab endpoint"

NoErr == ""

ClientRec(v4, v3, prefix) ==
    [HasV4Support |-> v4, HasV3Support |-> v3, APIPrefix |-> prefix]

\* the result of guessAPIVersion: the error, the client fields it set, and
\* the probes it issued, in order
guessAPIVersion(probe4, probe3) ==
    LET r4 == executeHead(probe4)
        r3 == executeHead(probe3)
    IN  IF r4.status = 401
        THEN [err |-> ErrGitLabInvalidToken, c |-> ClientRec(FALSE, FALSE, ""),
              probes |-> <<"/api/v4/user">>]
        ELSE IF r4.status = 200
        THEN [err |-> NoErr, c |-> ClientRec(TRUE, FALSE, "/api/v4"),
              probes |-> <<"/api/v4/user">>]
        ELSE IF r3.status = 401
        THEN [err |-> ErrGitLabInvalidToken, c |-> ClientRec(FALSE, FALSE, ""),
              probes |-> <<"/api/v4/user", "/api/v3/user">>]
        ELSE IF r3.status = 200
        THEN [err |-> NoErr, c |-> ClientRec(FALSE, TRUE, "/api/v3"),
              probes |-> <<"/api/v4/user", "/api/v3/user">>]
        ELSE [err |-> ErrGitLabInvalidEndpoint, c |-> ClientRec(FALSE, FALSE, ""),
              probes |-> <<"/api/v4/user", "/api/v3/user">>]

\* NewClient handing out the half-built client together with the error
NewClientKeepingClient(probe4, probe3) ==
    LET g == guessAPIVersion(probe4, probe3)
    IN  [client |-> Some(g.c), err |-> g.err, probes |-> g.probes]

\* (client, err): the client is nil whenever err is set
NewClient(probe4, probe3) ==
    LET g == guessAPIVersion(probe4, probe3)
    IN  [client |-> IF g.err # NoErr THEN Nil ELSE Some(g.c),
         err |-> g.err, probes |-> g.probes]

(***************************************************************************)
(* strconv.Atoi on a header value, and the decimal numerals it reads       *)
(***************************************************************************)
Digits == <<"0", "1", "2", "3", "4", "5", "6", "7", "8", "9">>

Itoa(n) == Digits[n + 1]

Atoi(s) ==
    IF \E n \in 0..9 : Digits[n + 1] = s
    THEN [ok |-> TRUE, n |-> CHOOSE n \in 0..9 : Digits[n + 1] = s]
    ELSE [ok |-> FALSE, n |-> 0]

(***************************************************************************)
(* encoding/base64, StdEncoding: text is a sequence of one-character       *)
(* strings.  B64Encode is RFC 4648 section 4; B64Decode is what            *)
(* DecodeString does: line breaks are skipped, every quantum has four     *)
(* characters, padding only ends the last one, trailing bits are ignored.  *)
(***************************************************************************)
B64Alphabet ==
    <<"A", "B", "C", "D", "E", "F", "G", "H", "I", "J", "K", "L", "M", "N", "O", "P",
       "Q", "R", "S", "T", "U", "V", "W", "X", "Y", "Z", "a", "b", "c", "d", "e", "f",
       "g", "h", "i", "j", "k", "l", "m", "n", "o", "p", "q", "r", "s", "t", "u", "v",
       "w", "x", "y", "z", "0", "1", "2", "3", "4", "5", "6", "7", "8", "9", "+", "/">>

IsB64Char(c) == \E i \in 1..64 : B64Alphabet[i] = c

B64Val(c) == (CHOOSE i \in 1..64 : B64Alphabet[i] = c) - 1

B64Chr(v) == B64Alphabet[v + 1]

RECURSIVE B64Encode(_)
B64Encode(b) ==
    IF Len(b) = 0 THEN <<>>
    ELSE IF Len(b) = 1
    THEN <<B64Chr(b[1] \div 4), B64Chr((b[1] % 4) * 16), "=", "=">>
    ELSE IF Len(b) = 2
    THEN <<B64Chr(b[1] \div 4), B64Chr((b[1] % 4) * 16 + b[2] \div 16),
           B64Chr((b[2] % 16) * 4), "=">>
    ELSE <<B64Chr(b[1] \div 4), B64Chr((b[1] % 4) * 16 + b[2] \div 16),
           B64Chr((b[2] % 16) * 4 + b[3] \div 64), B64Chr(b[3] % 64)>>
         \o B64Encode(SubSeq(b, 4, Len(b)))

IsLineBreak(c) == c = "\n" \/ c = "\r"

B64Quantum(q, isLast) ==
    IF \A i \in 1..4 : IsB64Char(q[i])
    THEN [ok |-> TRUE,
          bytes |-> <<B64Val(q[1]) * 4 + B64Val(q[2]) \div 16,
                      (B64Val(q[2]) % 16) * 16 + B64Val(q[3]) \div 4,
                      (B64Val(q[3]) % 4) * 64 + B64Val(q[4])>>]
    ELSE IF isLast /\ IsB64Char(q[1]) /\ IsB64Char(q[2]) /\ IsB64Char(q[3]) /\ q[4] = "="
    THEN [ok |-> TRUE,
          bytes |-> <<B64Val(q[1]) * 4 + B64Val(q[2]) \div 16,
                      (B64Val(q[2]) % 16) * 16 + B64Val(q[3]) \div 4>>]
    ELSE IF isLast /\ IsB64Char(q[1]) /\ IsB64Char(q[2]) /\ q[3] = "=" /\ q[4] = "="
    THEN [ok |-> TRUE, bytes |-> <<B64Val(q[1]) * 4 + B64Val(q[2]) \div 16>>]
    ELSE [ok |-> FALSE, bytes |-> <<>>]

RECURSIVE B64DecodeQuanta(_)
B64DecodeQuanta(s) ==
    IF Len(s) = 0 THEN [ok |-> TRUE, bytes |-> <<>>]
    ELSE IF Len(s) < 4 THEN [ok |-> FALSE, bytes |-> <<>>]
    ELSE LET q == B64Quantum(SubSeq(s, 1, 4), Len(s) = 4)
             r == B64DecodeQuanta(SubSeq(s, 5, Len(s)))
         IN  IF q.ok /\ r.ok
             THEN [ok |-> TRUE, bytes |-> q.bytes \o r.bytes]
             ELSE [ok |-> FALSE, bytes |-> <<>>]

B64Decode(s) == B64DecodeQuanta(SelectSeq(s, LAMBDA c : ~IsLineBreak(c)))

(***************************************************************************)
(* encoding/json, as far as the client uses it.  A JSON object is a        *)
(* record, a JSON array a sequence of records.  Unknown members are        *)
(* ignored and missing ones leave the zero value.                          *)
(***************************************************************************)
Field(o, name, zero) == IF name \in DOMAIN o THEN o[name] ELSE zero

DecodeProject(o) ==
    [ID |-> Field(o, "id", 0),
     Name |-> Field(o, "name", ""),
     PathWithNamespace |-> Field(o, "path_with_namespace", ""),
     SSHURL |-> Field(o, "ssh_url_to_repo", ""),
     HTTPURL |-> Field(o, "http_url_to_repo", ""),
     WWWURL |-> Field(o, "web_url", "")]

DecodeTag(o) ==
    [Name |-> Field(o, "name", <<>>), CommitID |-> Field(o, "commit", <<>>)]

DecodeFile(o) ==
    [Content |-> Field(o, "content", <<>>), Encoding |-> Field(o, "encoding", "")]

\* the decoding of a JSON object into the struct type named T
Decode(T, o) ==
    CASE T = "Project" -> DecodeProject(o)
      [] T = "Tag" -> DecodeTag(o)
      [] T = "File" -> DecodeFile(o)

\* json.Unmarshal(body, &[]*T{}) and json.Unmarshal(body, &T{})
UnmarshalList(body, T) ==
    IF body.k = "array"
    THEN [ok |-> TRUE, v |-> [i \in 1..Len(body.v) |-> Decode(T, body.v[i])]]
    ELSE [ok |-> FALSE, v |-> <<>>]

UnmarshalObject(body, T) ==
    IF body.k = "object"
    THEN [ok |-> TRUE, v |-> Some(Decode(T, body.v))]
    ELSE [ok |-> FALSE, v |-> Nil]

(***************************************************************************)
(* Client.executeAPIMethod.  a1 answers the first request (no page         *)
(* argument), pg[i] answers the request for page i.  The page fetches run  *)
(* concurrently and their bodies are appended in the order they arrive,    *)
(* so the operator yields the set of results the call can produce.         *)
(***************************************************************************)
Perms(S) ==
    {f \in [1..Cardinality(S) -> S] : \A i, j \in 1..Cardinality(S) : f[i] = f[j] => i = j}

ApiResult(err, list) == [err |-> err, list |-> list]

executeAPIMethod(a1, pg) ==
    LET r == executeGet(a1)
    IN  IF r.err THEN {ApiResult("transport error", <<>>)}
        ELSE IF r.next = "" THEN {ApiResult(NoErr, <<r.body>>)}
        ELSE IF ~Atoi(r.next).ok THEN {ApiResult("strconv.Atoi", <<>>)}
        ELSE IF ~Atoi(r.total).ok THEN {ApiResult("strconv.Atoi", <<>>)}
        ELSE LET nextPage == Atoi(r.next).n
                 totalPages == Atoi(r.total).n
                 got == {i \in nextPage..totalPages : ~executeGet(pg[i]).err}
             IN  IF 1 + Cardinality(got) # totalPages
                 THEN {ApiResult("Failed to get some pages..", <<>>)}
                 ELSE {ApiResult(NoErr,
                          <<r.body>> \o [k \in 1..Cardinality(got) |-> executeGet(pg[order[k]]).body])
                       : order \in Perms(got)}

(***************************************************************************)
(* The API operations of gitlab.Client.  Each yields the set of            *)
(* (err, val) results the call can produce; val is nil whenever err is     *)
(* set.                                                                    *)
(***************************************************************************)
OpResult(err, val) == [err |-> err, val |-> val]

RECURSIVE Flatten(_)
Flatten(ss) == IF Len(ss) = 0 THEN <<>> ELSE ss[1] \o Flatten(Tail(ss))

ListOf(pl, T) ==
    IF pl.err # NoErr THEN OpResult(pl.err, Nil)
    ELSE IF \E i \in 1..Len(pl.list) : ~UnmarshalList(pl.list[i], T).ok
    THEN OpResult("json.Unmarshal", Nil)
    ELSE OpResult(NoErr,
            Some(Flatten([i \in 1..Len(pl.list) |-> UnmarshalList(pl.list[i], T).v])))

GetProjectList(a1, pg) == {ListOf(pl, "Project") : pl \in executeAPIMethod(a1, pg)}

GetTagList(a1, pg) == {ListOf(pl, "Tag") : pl \in executeAPIMethod(a1, pg)}

ProjectOf(pl) ==
    IF pl.err # NoErr THEN OpResult(pl.err, Nil)
    ELSE IF Len(pl.list) = 0 THEN OpResult("No such project", Nil)
    ELSE IF ~UnmarshalObject(pl.list[1], "Project").ok
    THEN OpResult("json.Unmarshal", Nil)
    ELSE OpResult(NoErr, UnmarshalObject(pl.list[1], "Project").v)

GetProjectById(a1, pg) == {ProjectOf(pl) : pl \in executeAPIMethod(a1, pg)}

\* the archive is the first body, whatever the response was
ArchiveOf(pl) ==
    IF pl.err # NoErr THEN OpResult(pl.err, Nil)
    ELSE IF Len(pl.list) = 0 THEN OpResult("Archive operation failed", Nil)
    ELSE OpResult(NoErr, Some(pl.list[1]))

ClientGetArchive(a1, pg) == {ArchiveOf(pl) : pl \in executeAPIMethod(a1, pg)}

\* FileOf without the check of the declared encoding
FileOfAnyEncoding(pl) ==
    IF pl.err # NoErr THEN OpResult(pl.err, Nil)
    ELSE IF Len(pl.list) = 0 THEN OpResult("No such file", Nil)
    ELSE IF ~UnmarshalObject(pl.list[1], "File").ok
    THEN OpResult("json.Unmarshal", Nil)
    ELSE LET file == UnmarshalObject(pl.list[1], "File").v[1]
         IN  IF ~B64Decode(file.Content).ok THEN OpResult("base64", Nil)
             ELSE OpResult(NoErr, Some(B64Decode(file.Content).bytes))

FileOf(pl) ==
    IF pl.err # NoErr THEN OpResult(pl.err, Nil)
    ELSE IF Len(pl.list) = 0 THEN OpResult("No such file", Nil)
    ELSE IF ~UnmarshalObject(pl.list[1], "File").ok
    THEN OpResult("json.Unmarshal", Nil)
    ELSE LET file == UnmarshalObject(pl.list[1], "File").v[1]
         IN  IF file.Encoding # "base64" THEN OpResult("Unknown encoding", Nil)
             ELSE IF ~B64Decode(file.Content).ok THEN OpResult("base64", Nil)
             ELSE OpResult(NoErr, Some(B64Decode(file.Content).bytes))

\* the form of the file endpoint GetFile ends up requesting: on a v4 client
\* the legacy form is probed with a HEAD first
FileEndpointForm(c, head) ==
    IF c.HasV4Support /\ executeHead(head).status # 200 THEN "path" ELSE "legacy"

GetFile(c, head, a1, pg) == {FileOf(pl) : pl \in executeAPIMethod(a1, pg)}

(***************************************************************************)
(* The upstream: three projects, the first one holding the catalogue.      *)
(***************************************************************************)
RepoPathWithNamespace == "devops/packages"

ProjectJson(id, name, path) ==
    [id |-> id, name |-> name, path_with_namespace |-> path,
     ssh_url_to_repo |-> <<"ssh", path>>, http_url_to_repo |-> <<"http", path>>,
     web_url |-> <<"www", path>>]

PJ0 == ProjectJson(1, "Packages", RepoPathWithNamespace)

PJ1 == ProjectJson(2, "Lib", "nodejs/lib")

PJ2 == ProjectJson(3, "Thing", "composer/thing")

Master == <<"master">>

C1Ref == <<"c1">>

C2Ref == <<"c2">>

\* a branch whose name ends in _master
DevMaster == <<"dev", "_", "master">>

(***************************************************************************)
(* Inputs of the client operations                                         *)
(***************************************************************************)
MaxPages == 3

MaxFileLen == 3

SampleBytes == {0, 77, 255}

RECURSIVE SeqsUpTo(_, _)
SeqsUpTo(S, n) ==
    IF n = 0 THEN {<<>>}
    ELSE LET shorter == SeqsUpTo(S, n - 1)
         IN  shorter \cup {Append(q, x) : q \in {t \in shorter : Len(t) = n - 1}, x \in S}

FileBytes == SeqsUpTo(SampleBytes, MaxFileLen)

\* text that is not the standard encoding of any file: no padding, data
\* after the padding, a character outside the alphabet; and two texts Go
\* decodes although they are not what an encoder writes (a line break, non
\* zero trailing bits)
OddContents ==
    {<<"T", "Q">>, <<"T", "Q", "=", "=", "T", "Q", "=", "=">>, <<"T", "!", "=", "=">>,
     <<"T", "Q", "\n", "=", "=">>, <<"T", "R", "=", "=">>}

FileContents == {B64Encode(b) : b \in FileBytes} \cup OddContents

Encodings == {"base64", "BASE64", "text", ""}

FileJson(content, encoding) == [content |-> content, encoding |-> encoding]

TagJson(name, commit) == [name |-> name, commit |-> commit]

BodyError == Body("object", [message |-> "404 Not Found"])

BodyTarGz == Body("bytes", <<31, 139, 8>>)

ListBodies ==
    {Body("array", <<>>), Body("array", <<PJ0, PJ1>>), Body("array", <<PJ2>>),
     Body("array", <<TagJson(<<"v", "1", ".", "0", ".", "0">>, C1Ref)>>)}

PlainBodies ==
    {BodyEmpty, BodyHtml, BodyError, BodyTarGz, Body("object", PJ1)} \cup ListBodies
    \cup {Body("object", FileJson(c, e)) : c \in FileContents, e \in Encodings}

Statuses == {200, 404, 502}

ProbeAnswers == {Resp(st, BodyEmpty) : st \in Statuses \cup {401}} \cup {Redirect, NetErr}

PageHeaders ==
    {<<Itoa(n), Itoa(t)>> : n \in 2..MaxPages, t \in 1..MaxPages}
    \cup {<<"2", "">>, <<"2", "bad">>, <<"bad", "2">>}

FirstAnswers ==
    {Resp(st, b) : st \in Statuses, b \in PlainBodies}
    \cup {Answer("resp", 200, b, h[1], h[2]) : b \in ListBodies, h \in PageHeaders}
    \cup {Redirect, NetErr}

\* the answers to the request for page i: the page has its own item
PageAnswers(i) ==
    {Resp(200, Body("array", <<[PJ2 EXCEPT !.id = 10 + i]>>)), Resp(502, BodyEmpty), NetErr}

NoPages == [i \in 1..MaxPages |-> NetErr]

PagesFor(a1) ==
    IF a1.next = "" THEN {NoPages}
    ELSE {pg \in [1..MaxPages -> UNION {PageAnswers(i) : i \in 1..MaxPages}] :
             \A i \in 1..MaxPages : pg[i] \in PageAnswers(i)}

(***************************************************************************)
(* The client operations as a state machine: `client` is the client        *)
(* NewClient returned (nil before, and after a failure), `last` the last   *)
(* call: its inputs, what it returned and what it requested.               *)
(***************************************************************************)
Call(op, probe4, probe3, a1, pg, head, err, val, probes, form) ==
    [op |-> op, probe4 |-> probe4, probe3 |-> probe3, a1 |-> a1, pg |-> pg,
     head |-> head, err |-> err, val |-> val, probes |-> probes, form |-> form]

NoCall == Call("none", NetErr, NetErr, NetErr, NoPages, NetErr, NoErr, Nil, <<>>, "")

InitClient ==
    /\ client = Nil
    /\ last = NoCall
    /\ clientCache = <<>>
    /\ archiveCache = <<>>
    /\ now = 0
    /\ conns = <<>>

\* the caller takes the result of the last call; the next call starts after it
Return ==
    /\ last # NoCall
    /\ last' = NoCall
    /\ UNCHANGED <<client, cacheVars>>

DoNewClient ==
    \E probe4, probe3 \in ProbeAnswers :
        LET r == NewClient(probe4, probe3)
        IN  /\ last = NoCall
            /\ client' = r.client
            /\ last' = Call("NewClient", probe4, probe3, NetErr, NoPages, NetErr,
                            r.err, r.client, r.probes, "")
            /\ UNCHANGED cacheVars

\* the results of the operation named op
ApiResults(op, a1, pg) ==
    CASE op = "GetProjectList" -> GetProjectList(a1, pg)
      [] op = "GetProjectById" -> GetProjectById(a1, pg)
      [] op = "GetTagList" -> GetTagList(a1, pg)
      [] op = "GetArchive" -> ClientGetArchive(a1, pg)

ApiCall(op) ==
    /\ client # Nil
    /\ last = NoCall
    /\ \E a1 \in FirstAnswers :
         \E pg \in PagesFor(a1) :
           \E r \in ApiResults(op, a1, pg) :
              last' = Call(op, NetErr, NetErr, a1, pg, NetErr, r.err, r.val, <<>>, "")
    /\ UNCHANGED <<client, cacheVars>>

DoGetProjectList == ApiCall("GetProjectList")

DoGetProjectById == ApiCall("GetProjectById")

DoGetTagList == ApiCall("GetTagList")

DoGetArchive == ApiCall("GetArchive")

DoGetFile ==
    /\ client # Nil
    /\ last = NoCall
    /\ \E a1 \in FirstAnswers, head \in ProbeAnswers :
         \E pg \in PagesFor(a1) :
           \E r \in GetFile(client[1], head, a1, pg) :
              last' = Call("GetFile", NetErr, NetErr, a1, pg, head, r.err, r.val, <<>>,
                           FileEndpointForm(client[1], head))
    /\ UNCHANGED <<client, cacheVars>>

NextClient ==
    \/ Return
    \/ DoNewClient
    \/ DoGetProjectList
    \/ DoGetProjectById
    \/ DoGetTagList
    \/ DoGetArchive
    \/ DoGetFile

SpecClient == InitClient /\ [][NextClient]_vars

(***************************************************************************)
(* Claims about the upstream client (checked under SpecClient)             *)
(***************************************************************************)
Is200(ans) == ans.t = "resp" /\ ans.status = 200

Is401(ans) == ans.t = "resp" /\ ans.status = 401

BoundTo(prefix) ==
    /\ last.err = NoErr
    /\ client = last.val
    /\ client = Some(ClientRec(prefix = "/api/v4", prefix = "/api/v3", prefix))

\* C5: NewClient probes /api/v4/user first; on 200 it binds /api/v4 and
\* does not probe v3; on another status than 200 and 401 it probes
\* /api/v3/user and on 200 binds /api/v3; a 401 on a probe gives the
\* bad-credential error, no 200 on either the bad-endpoint error, and the
\* client is nil on every error.
C5_NewClientBinding ==
    last.op = "NewClient" =>
        /\ last.probes[1] = "/api/v4/user"
        /\ Is200(last.probe4) =>
              BoundTo("/api/v4") /\ last.probes = <<"/api/v4/user">>
        /\ (~Is200(last.probe4) /\ ~Is401(last.probe4)) =>
              /\ last.probes = <<"/api/v4/user", "/api/v3/user">>
              /\ Is200(last.probe3) => BoundTo("/api/v3")
              /\ Is401(last.probe3) => last.err = ErrGitLabInvalidToken
              /\ (~Is200(last.probe3) /\ ~Is401(last.probe3)) =>
                    last.err = ErrGitLabInvalidEndpoint
        /\ Is401(last.probe4) => last.err = ErrGitLabInvalidToken
        /\ last.err # NoErr => (client = Nil /\ last.val = Nil)

C5_Witness ==
    /\ last.op = "NewClient"
    /\ last.probe4 = Resp(404, BodyEmpty)
    /\ Is200(last.probe3)
    /\ BoundTo("/api/v3")

ProbedV3 == Len(last.probes) = 2

\* C6 as stated: a probe answered with a redirect to the sign-in page makes
\* NewClient fail with the bad-credential error.
C6_RedirectIsBadCredential ==
    (/\ last.op = "NewClient"
     /\ last.probe4 = Redirect \/ (ProbedV3 /\ last.probe3 = Redirect))
    => last.err = ErrGitLabInvalidToken

\* C6 amended: a redirect answer to a probe counts as a status that is
\* neither 200 nor 401.  After a redirect on the v4 probe the v3 probe
\* decides: 401 gives the bad-credential error, 200 binds /api/v3, anything
\* else gives the bad-endpoint error; a redirect on the v3 probe gives the
\* bad-endpoint error.
C6_RedirectFallsThrough ==
    last.op = "NewClient" =>
        /\ last.probe4 = Redirect =>
              /\ ProbedV3
              /\ Is401(last.probe3) => last.err = ErrGitLabInvalidToken
              /\ Is200(last.probe3) => BoundTo("/api/v3")
              /\ (~Is401(last.probe3) /\ ~Is200(last.probe3)) =>
                    last.err = ErrGitLabInvalidEndpoint
        /\ (ProbedV3 /\ last.probe3 = Redirect) => last.err = ErrGitLabInvalidEndpoint

C6_Witness ==
    /\ last.op = "NewClient"
    /\ last.probe4 = Redirect
    /\ Is401(last.probe3)
    /\ last.err = ErrGitLabInvalidToken

ApiOps == {"GetProjectList", "GetProjectById", "GetTagList", "GetArchive", "GetFile"}

AnsweredWithError(ans) ==
    \/ ans.t = "redirect"
    \/ ans.t = "resp" /\ ans.status \notin 200..299

\* C7: an API operation whose call the upstream answers with a non-2xx
\* status or a redirect returns an error and no result.
C7_ErrorStatusIsError ==
    (last.op \in ApiOps /\ AnsweredWithError(last.a1))
    => (last.err # NoErr /\ last.val = Nil)

\* C8: GetFile returns the bytes of a file that the upstream serves as
\* base64, and fails, returning no bytes, for every other declared encoding.
C8_GetFileRoundTrip ==
    (/\ last.op = "GetFile"
     /\ last.a1.t = "resp"
     /\ last.a1.next = ""
     /\ last.a1.body.k = "object"
     /\ {"content", "encoding"} \subseteq DOMAIN last.a1.body.v)
    => LET file == last.a1.body.v
       IN  /\ file.encoding = "base64" =>
                 \A b \in FileBytes :
                    file.content = B64Encode(b) => (last.err = NoErr /\ last.val = Some(b))
           /\ file.encoding # "base64" => (last.err # NoErr /\ last.val = Nil)
           /\ last.err # NoErr => last.val = Nil

C8_Witness ==
    /\ last.op = "GetFile"
    /\ last.a1.body = Body("object", FileJson(B64Encode(<<77, 255, 0>>), "base64"))
    /\ last.err = NoErr
    /\ last.val = Some(<<77, 255, 0>>)

(***************************************************************************)
(* The two process-wide LRU caches.  A cache is a function from the keys   *)
(* it holds to their values; a key is the string fmt.Sprintf builds, its   *)
(* parts joined by "_".  A value carries its Go type, which the readers    *)
(* assert.                                                                 *)
(***************************************************************************)
RECURSIVE Join(_)
Join(parts) ==
    IF Len(parts) = 0 THEN <<>>
    ELSE IF Len(parts) = 1 THEN parts[1]
    ELSE parts[1] \o <<"_">> \o Join(Tail(parts))

CacheHas(c, k) == k \in DOMAIN c

CacheAdd(c, k, v) == [x \in DOMAIN c \cup {k} |-> IF x = k THEN v ELSE c[x]]

CacheRemove(c, k) == [x \in DOMAIN c \ {k} |-> c[x]]

TTL == 30

\* an entry stamped with the time of the fetch, the 30 minutes not added
cachedProjectListUnstamped(expire, projectList, token) ==
    [type |-> "cachedProjectList", Expire |-> expire - 30, ProjectList |-> projectList,
     bytes |-> <<>>, fetchedBy |-> token]

cachedProjectList(expire, projectList, token) ==
    [type |-> "cachedProjectList", Expire |-> expire, ProjectList |-> projectList,
     bytes |-> <<>>, fetchedBy |-> token]

CachedBytes(b) ==
    [type |-> "bytes", Expire |-> 0, ProjectList |-> <<>>, bytes |-> b, fetchedBy |-> ""]

\* project_list_<token>, with a variant that leaves the token out
projectListKeyShared(token) == <<"project", "_", "list">>

getProjectListCacheKey(token) == Join(<<<<"project">>, <<"list">>, <<token>>>>)

\* cachedData.Expire.Before(time.Now()), with a variant that also expires
\* the entry at the instant of its expiry
ExpiredAtOrBefore(expire, t) == expire <= t

Expired(expire, t) == expire < t

(***************************************************************************)
(* What the upstream shows to each token.  tA and tB are valid tokens of   *)
(* two users, tC is the valid token of a user who cannot see the           *)
(* catalogue project, any other token is refused.                          *)
(***************************************************************************)
ValidTokens == {"tA", "tB", "tC"}

Tokens == ValidTokens \cup {"bad", ""}

VisibleJson(token) ==
    CASE token = "tA" -> <<PJ0, PJ1, PJ2>>
      [] token = "tB" -> <<PJ0, PJ2>>
      [] token = "tC" -> <<PJ1>>
      [] OTHER -> <<>>

\* the upstream's answers to the two version probes: a GitLab with API v4
UpstreamProbe4(token) ==
    IF token \in ValidTokens THEN Resp(200, BodyEmpty) ELSE Resp(401, BodyEmpty)

UpstreamProbe3(token) ==
    IF token \in ValidTokens THEN Resp(404, BodyEmpty) ELSE Resp(401, BodyEmpty)

\* the answers a GET of /projects can get: the list, or a failure
UpstreamProjects(token) ==
    {Resp(200, Body("array", VisibleJson(token))), Resp(502, BodyEmpty), NetErr}

(***************************************************************************)
(* GitLabConnection: the connection of one request.                        *)
(* pc: "idle" (no request), "lookup"/"fetch" (inside fetchProjectList),    *)
(* "done" (the operation returned).  The lookup fields record the cache    *)
(* access the operation made: its kind ("hit", "expired", "miss", "none"), *)
(* the clock at the access, the entry's expiry and whether the entry was   *)
(* gone from the cache after it.                                           *)
(***************************************************************************)
Slots == {1, 2}

Conn(pc, op, token, cl, list, owner, source, containerRepo, err, status, lk) ==
    [pc |-> pc, op |-> op, token |-> token, client |-> cl,
     visibleProjectList |-> list, listOwner |-> owner, listSource |-> source,
     containerRepo |-> containerRepo, err |-> err, status |-> status, lookup |-> lk]

Lookup(kind, at, expire, removed) ==
    [kind |-> kind, at |-> at, Expire |-> expire, removed |-> removed]

NoLookup == Lookup("none", 0, 0, FALSE)

IdleConn == Conn("idle", "", "", Nil, Nil, "", "", Nil, NoErr, 0, NoLookup)

ListOps == {"fetchProjectList", "GetCachedList", "ClearCachedList", "EnqueueProjectCache"}

\* NewConnectionFromRequest, then the GitLabConnector middleware: 401 for
\* the bad-credential error, 500 for any other, else the route handler runs
NewConnectionFromRequest(token) == NewClient(UpstreamProbe4(token), UpstreamProbe3(token))

ConnectorStatus(err) ==
    IF err = ErrGitLabInvalidToken THEN 401 ELSE IF err # NoErr THEN 500 ELSE 0

\* a lookup that takes the first project of the list, whatever its path
LocateFirstProject(list) == IF Len(list) > 0 THEN Some(list[1]) ELSE Nil

\* the project the catalogue lives in, if it is in the list
LocateContainerRepo(list) ==
    IF \E i \in 1..Len(list) : list[i].PathWithNamespace = RepoPathWithNamespace
    THEN Some(CHOOSE p \in {list[i] : i \in 1..Len(list)} :
                p.PathWithNamespace = RepoPathWithNamespace)
    ELSE Nil

LocateErr(list) ==
    IF LocateContainerRepo(list) = Nil THEN "Project with namespace not found" ELSE NoErr

InitList ==
    /\ client = Nil
    /\ last = NoCall
    /\ clientCache = <<>>
    /\ archiveCache = <<>>
    /\ now = 0
    /\ conns = [r \in Slots |-> IdleConn]

\* a request arrives: the connection is made and the handler starts
Connect(r, token, op) ==
    LET n == NewConnectionFromRequest(token)
    IN  /\ conns[r].pc = "idle"
        /\ conns' = [conns EXCEPT ![r] =
               IF n.err # NoErr
               THEN Conn("done", op, token, Nil, Nil, "", "", Nil, n.err,
                         ConnectorStatus(n.err), NoLookup)
               ELSE Conn(IF op \in {"fetchProjectList", "EnqueueProjectCache"}
                         THEN "lookup" ELSE "handler",
                         op, token, n.client, Nil, "", "", Nil, NoErr,
                         IF op = "EnqueueProjectCache" THEN 302 ELSE 0, NoLookup)]
        /\ UNCHANGED <<clientVars, clientCache, archiveCache, now>>

\* fetchProjectList, up to the cache lookup
fetchProjectListLookup(r) ==
    LET c == conns[r]
        key == getProjectListCacheKey(c.token)
        hit == CacheHas(clientCache, key) /\ clientCache[key].type = "cachedProjectList"
        fresh == hit /\ ~Expired(clientCache[key].Expire, now)
    IN  /\ c.pc = "lookup"
        /\ clientCache' = IF hit /\ ~fresh THEN CacheRemove(clientCache, key) ELSE clientCache
        /\ conns' = [conns EXCEPT ![r] =
               IF fresh
               THEN [c EXCEPT !.pc = "done",
                        !.visibleProjectList = Some(clientCache[key].ProjectList),
                        !.listOwner = clientCache[key].fetchedBy,
                        !.listSource = "cache",
                        !.containerRepo = LocateContainerRepo(clientCache[key].ProjectList),
                        !.err = LocateErr(clientCache[key].ProjectList),
                        !.lookup = Lookup("hit", now, clientCache[key].Expire, FALSE)]
               ELSE [c EXCEPT !.pc = "fetch",
                        !.lookup = IF hit
                                   THEN Lookup("expired", now, clientCache[key].Expire,
                                               ~CacheHas(clientCache', key))
                                   ELSE Lookup("miss", now, 0, FALSE)]]
        /\ UNCHANGED <<clientVars, archiveCache, now>>

\* fetchProjectList after a miss: the upstream fetch, the store, and the
\* search for the catalogue project
fetchProjectListFetch(r) ==
    LET c == conns[r]
        key == getProjectListCacheKey(c.token)
    IN  /\ c.pc = "fetch"
        /\ \E a1 \in UpstreamProjects(c.token) :
             \E res \in GetProjectList(a1, NoPages) :
                IF res.err # NoErr
                THEN /\ conns' = [conns EXCEPT ![r] = [c EXCEPT !.pc = "done", !.err = res.err]]
                     /\ UNCHANGED clientCache
                ELSE /\ clientCache' = CacheAdd(clientCache, key,
                                          cachedProjectList(now + TTL, res.val[1], c.token))
                     /\ conns' = [conns EXCEPT ![r] =
                           [c EXCEPT !.pc = "done",
                                     !.visibleProjectList = res.val,
                                     !.listOwner = c.token,
                                     !.listSource = "upstream",
                                     !.containerRepo = LocateContainerRepo(res.val[1]),
                                     !.err = LocateErr(res.val[1])]]
        /\ UNCHANGED <<clientVars, archiveCache, now>>

\* GET /: the cached project URLs of this token and their expiry
GetCachedList(r) ==
    LET c == conns[r]
        key == getProjectListCacheKey(c.token)
        hit == CacheHas(clientCache, key) /\ clientCache[key].type = "cachedProjectList"
        fresh == hit /\ ~Expired(clientCache[key].Expire, now)
    IN  /\ c.pc = "handler"
        /\ c.op = "GetCachedList"
        /\ clientCache' = IF hit /\ ~fresh THEN CacheRemove(clientCache, key) ELSE clientCache
        /\ conns' = [conns EXCEPT ![r] =
               [c EXCEPT !.pc = "done", !.status = 200,
                         !.visibleProjectList =
                             IF fresh THEN Some(clientCache[key].ProjectList) ELSE Nil,
                         !.listOwner = IF fresh THEN clientCache[key].fetchedBy ELSE "",
                         !.listSource = IF fresh THEN "cache" ELSE "",
                         !.lookup =
                             IF fresh THEN Lookup("hit", now, clientCache[key].Expire, FALSE)
                             ELSE IF hit
                             THEN Lookup("expired", now, clientCache[key].Expire,
                                         ~CacheHas(clientCache', key))
                             ELSE Lookup("miss", now, 0, FALSE)]]
        /\ UNCHANGED <<clientVars, archiveCache, now>>

\* a ClearCachedList that empties the cache: globalCache.Purge()
PurgedCache(cc, token) == <<>>

\* the cache after ClearCachedList: globalCache.Remove(cacheKey)
ClearedList(cc, token) == CacheRemove(cc, getProjectListCacheKey(token))

\* POST / with action=clear_cache
ClearCachedList(r) ==
    LET c == conns[r]
    IN  /\ c.pc = "handler"
        /\ c.op = "ClearCachedList"
        /\ clientCache' = ClearedList(clientCache, c.token)
        /\ conns' = [conns EXCEPT ![r] = [c EXCEPT !.pc = "done", !.status = 302]]
        /\ UNCHANGED <<clientVars, archiveCache, now>>

\* the request is over and its connection dropped
Release(r) ==
    /\ conns[r].pc = "done"
    /\ conns' = [conns EXCEPT ![r] = IdleConn]
    /\ UNCHANGED <<clientVars, clientCache, archiveCache, now>>

\* the LRU drops an entry under the pressure of other keys
LruEvict ==
    /\ \E k \in DOMAIN clientCache : clientCache' = CacheRemove(clientCache, k)
    /\ UNCHANGED <<clientVars, archiveCache, now, conns>>

TickStep == 10

MaxTime == 40

Tick ==
    /\ now + TickStep <= MaxTime
    /\ now' = now + TickStep
    /\ UNCHANGED <<clientVars, clientCache, archiveCache, conns>>

ListTokens == {"tA", "tB", "bad"}

NextList ==
    \/ \E r \in Slots, token \in ListTokens, op \in ListOps : Connect(r, token, op)
    \/ \E r \in Slots : fetchProjectListLookup(r)
    \/ \E r \in Slots : fetchProjectListFetch(r)
    \/ \E r \in Slots : GetCachedList(r)
    \/ \E r \in Slots : ClearCachedList(r)
    \/ \E r \in Slots : Release(r)
    \/ LruEvict
    \/ Tick

SpecList == InitList /\ [][NextList]_vars

\* C3: a request never uses a visible project list that was fetched and
\* cached under another token, and every cached list sits under the key of
\* the token that fetched it.
C3_TokenIsolation ==
    /\ \A r \in Slots :
          conns[r].visibleProjectList # Nil => conns[r].listOwner = conns[r].token
    /\ \A t \in Tokens :
          CacheHas(clientCache, getProjectListCacheKey(t))
             => clientCache[getProjectListCacheKey(t)].fetchedBy = t

\* a request of tB is served its list from the cache while the list of tA
\* is cached too
C3_Witness ==
    \E r \in Slots :
       /\ conns[r].token = "tB"
       /\ conns[r].listSource = "cache"
       /\ conns[r].visibleProjectList =
             Some(UnmarshalList(Body("array", VisibleJson("tB")), "Project").v)
       /\ CacheHas(clientCache, getProjectListCacheKey("tA"))
       /\ CacheHas(clientCache, getProjectListCacheKey("tB"))

\* C4 as stated: no access at or after the entry's expiry (T + 30 min) is
\* served the cached list.
C4_NotServedAtExpiry ==
    \A r \in Slots :
       conns[r].lookup.kind = "hit" => conns[r].lookup.at < conns[r].lookup.Expire

\* C4 amended: an entry cached at T expires T + 30 min later; an access
\* strictly after the expiry is not served from the cache, removes the entry,
\* and fetchProjectList goes on to the upstream; an access at or before the
\* expiry is served.
C4_EvictedAfterExpiry ==
    /\ \A k \in DOMAIN clientCache :
          clientCache[k].type = "cachedProjectList" => clientCache[k].Expire <= now + TTL
    /\ \A r \in Slots :
          LET c == conns[r]
          IN  /\ c.lookup.kind = "hit" =>
                    /\ c.lookup.at <= c.lookup.Expire
                    /\ c.listSource = "cache"
              /\ c.lookup.kind = "expired" =>
                    /\ c.lookup.at > c.lookup.Expire
                    /\ c.lookup.removed
                    /\ c.listSource # "cache"
                    /\ c.op \in {"fetchProjectList", "EnqueueProjectCache"} =>
                          \/ c.pc = "fetch"
                          \/ c.listSource = "upstream"
                          \/ c.err # NoErr

\* one request is served the cached list at the very instant of expiry,
\* another finds the entry expired later and has fetched the list anew
C4_Witness ==
    \E r1, r2 \in Slots :
       /\ conns[r1].lookup.kind = "hit"
       /\ conns[r1].lookup.at = conns[r1].lookup.Expire
       /\ conns[r2].op = "fetchProjectList"
       /\ conns[r2].lookup.kind = "expired"
       /\ conns[r2].lookup.at >= conns[r2].lookup.Expire + TickStep
       /\ conns[r2].listSource = "upstream"

(***************************************************************************)
(* JsonMap: a decoded JSON object is a function from its keys to JSON      *)
(* values, a JSON value carries its Go type.  A string value is a sequence *)
(* of characters.                                                          *)
(***************************************************************************)
JStr(s) == [t |-> "string", s |-> s, n |-> 0, a |-> <<>>]

JNum(n) == [t |-> "number", s |-> <<>>, n |-> n, a |-> <<>>]

JArr(a) == [t |-> "array", s |-> <<>>, n |-> 0, a |-> a]

EmptyStr == <<>>

GetString(m, key) ==
    IF key \in DOMAIN m /\ m[key].t = "string" THEN m[key].s ELSE EmptyStr

GetStringErr(m, key) == ~(key \in DOMAIN m /\ m[key].t = "string")

GetListInterface(m, key) ==
    IF key \in DOMAIN m /\ m[key].t = "array" THEN Some(m[key].a) ELSE Nil

(***************************************************************************)
(* fetchSourceRepoList, after the catalogue files are read: each entry     *)
(* becomes a containerItem or nothing, and the items with a label of the   *)
(* kind are collected in the order their goroutines deliver them.          *)
(***************************************************************************)
RepoListJsonNamespace == "acme"

KindNpm == "npm"

KindComposer == "composer"

\* the key the documentation gives for the labels of an entry
TagsKeyDocumented == "tags"

TagsKey == "tag"

ContainerItem(gitURL, uuid, labelList) ==
    [GitURL |-> gitURL, UUID |-> uuid, LabelList |-> labelList]

LabelsOfKind(tags, kind) ==
    SelectSeq([i \in 1..Len(tags) |-> IF tags[i].t = "string" THEN tags[i].s ELSE EmptyStr],
              LAMBDA tagValue : tagValue = <<kind>>)

\* the containerItem of one entry, if any
SourceRepoItem(data, kind) ==
    LET cloneUrl == GetString(data, RepoListJsonNamespace)
        uuid == GetString(data, "uuid")
        tagsInterface == GetListInterface(data, TagsKey)
    IN  IF cloneUrl = EmptyStr \/ uuid = EmptyStr \/ tagsInterface = Nil
        THEN Nil
        ELSE Some(ContainerItem(cloneUrl, uuid, LabelsOfKind(tagsInterface[1], kind)))

\* the indices of the entries that are appended to containerRepoList
KeptEntries(sourceJsonData, kind) ==
    {i \in 1..Len(sourceJsonData) :
        /\ SourceRepoItem(sourceJsonData[i], kind) # Nil
        /\ Len(SourceRepoItem(sourceJsonData[i], kind)[1].LabelList) > 0}

\* the possible values of containerRepoList, one per order of delivery
fetchSourceRepoList(sourceJsonData, kind) ==
    {[k \in 1..Len(order) |-> SourceRepoItem(sourceJsonData[order[k]], kind)[1]] :
        order \in Perms(KeptEntries(sourceJsonData, kind))}

(***************************************************************************)
(* Catalogue entries: the two documented ones, the same with the key the   *)
(* code reads, and entries with a member missing or of another type.       *)
(***************************************************************************)
U1 == <<"u1">>

U2 == <<"u2">>

UrlOf(pj) == pj.http_url_to_repo

EntryOf(members) == [k \in {m[1] : m \in members} |-> (CHOOSE m \in members : m[1] = k)[2]]

CatalogueEntries ==
    {EntryOf({<<"acme", JStr(UrlOf(PJ1))>>, <<"uuid", JStr(U1)>>, <<"tags", JArr(<<JStr(<<"npm">>)>>)>>}),
     EntryOf({<<"acme", JStr(PJ2.ssh_url_to_repo)>>, <<"uuid", JStr(U2)>>,
              <<"tags", JArr(<<JStr(<<"composer">>)>>)>>}),
     EntryOf({<<"acme", JStr(UrlOf(PJ1))>>, <<"uuid", JStr(U1)>>, <<"tag", JArr(<<JStr(<<"npm">>)>>)>>}),
     EntryOf({<<"acme", JStr(PJ2.ssh_url_to_repo)>>, <<"uuid", JStr(U2)>>,
              <<"tag", JArr(<<JStr(<<"composer">>), JStr(<<"npm">>)>>)>>}),
     EntryOf({<<"acme", JStr(UrlOf(PJ1))>>, <<"uuid", JStr(U1)>>,
              <<"tag", JArr(<<JStr(<<"composer">>)>>)>>, <<"tags", JArr(<<JStr(<<"npm">>)>>)>>}),
     EntryOf({<<"acme", JStr(UrlOf(PJ1))>>, <<"tags", JArr(<<JStr(<<"npm">>)>>)>>,
              <<"tag", JArr(<<JStr(<<"npm">>)>>)>>}),
     EntryOf({<<"uuid", JStr(U1)>>, <<"tags", JArr(<<JStr(<<"npm">>)>>)>>, <<"tag", JArr(<<JStr(<<"npm">>)>>)>>}),
     EntryOf({<<"acme", JNum(1)>>, <<"uuid", JStr(U1)>>, <<"tags", JArr(<<JStr(<<"npm">>)>>)>>,
              <<"tag", JArr(<<JStr(<<"npm">>)>>)>>}),
     EntryOf({<<"acme", JStr(UrlOf(PJ1))>>, <<"uuid", JNum(7)>>, <<"tags", JArr(<<JStr(<<"npm">>)>>)>>,
              <<"tag", JArr(<<JStr(<<"npm">>)>>)>>}),
     EntryOf({<<"acme", JStr(UrlOf(PJ1))>>, <<"uuid", JStr(U1)>>, <<"tags", JStr(<<"npm">>)>>,
              <<"tag", JStr(<<"npm">>)>>}),
     EntryOf({<<"acme", JStr(UrlOf(PJ1))>>, <<"uuid", JStr(U1)>>, <<"tags", JArr(<<>>)>>,
              <<"tag", JArr(<<>>)>>}),
     EntryOf({<<"acme", JStr(UrlOf(PJ1))>>, <<"uuid", JStr(U1)>>, <<"tags", JArr(<<JNum(1)>>)>>,
              <<"tag", JArr(<<JNum(1)>>)>>}),
     EntryOf({<<"acme", JStr(UrlOf(PJ1))>>})}

MaxEntries == 2

Catalogues == SeqsUpTo(CatalogueEntries, MaxEntries)

CatalogueCall(kind, data, done, kept, list) ==
    [op |-> "fetchSourceRepoList", kind |-> kind, sourceJsonData |-> data,
     done |-> done, kept |-> kept, containerRepoList |-> list]

InitCatalogue ==
    /\ client = Nil
    /\ last \in {CatalogueCall(kind, data, FALSE, {}, <<>>) :
                    kind \in {KindNpm, KindComposer}, data \in Catalogues}
    /\ clientCache = <<>>
    /\ archiveCache = <<>>
    /\ now = 0
    /\ conns = <<>>

DoFetchSourceRepoList ==
    /\ ~last.done
    /\ \E list \in fetchSourceRepoList(last.sourceJsonData, last.kind) :
          last' = CatalogueCall(last.kind, last.sourceJsonData, TRUE,
                                KeptEntries(last.sourceJsonData, last.kind), list)
    /\ UNCHANGED <<client, cacheVars>>

NextCatalogue == DoFetchSourceRepoList

SpecCatalogue == InitCatalogue /\ [][NextCatalogue]_vars

HasString(m, key) == key \in DOMAIN m /\ m[key].t = "string"

HasArrayWith(m, key, kind) ==
    /\ key \in DOMAIN m
    /\ m[key].t = "array"
    /\ \E i \in 1..Len(m[key].a) : m[key].a[i] = JStr(<<kind>>)

\* C9: an entry is kept for kind K exactly when it has a string uuid, a
\* string clone url and a `tags` array that contains K.
C9_KeptIffDocumentedFormat ==
    last.done =>
       \A i \in 1..Len(last.sourceJsonData) :
          LET data == last.sourceJsonData[i]
          IN  i \in last.kept <=>
                 /\ HasString(data, "uuid")
                 /\ HasString(data, RepoListJsonNamespace)
                 /\ HasArrayWith(data, TagsKeyDocumented, last.kind)

(***************************************************************************)
(* strings.TrimLeft/TrimPrefix and semver.Make (blang/semver) on a tag     *)
(* name, a sequence of characters.                                         *)
(***************************************************************************)
IsDigit(c) == \E n \in 0..9 : Digits[n + 1] = c

Letters == {"v", "V", "x", "r", "c", "b"}

IsAlphaNum(c) == IsDigit(c) \/ c \in Letters \/ c = "-"

\* containsOnly(s, numbers) and containsOnly(s, alphanum)
ContainsOnlyNumbers(s) == \A i \in 1..Len(s) : IsDigit(s[i])

ContainsOnlyAlphaNum(s) == \A i \in 1..Len(s) : IsAlphaNum(s[i])

HasLeadingZeroes(s) == Len(s) > 1 /\ s[1] = "0"

\* the first position of character c in s, 0 if there is none
IndexRune(s, c) ==
    IF \E i \in 1..Len(s) : s[i] = c
    THEN CHOOSE i \in 1..Len(s) : s[i] = c /\ \A j \in 1..(i - 1) : s[j] # c
    ELSE 0

RECURSIVE Split(_, _)
Split(s, sep) ==
    IF IndexRune(s, sep) = 0 THEN <<s>>
    ELSE <<SubSeq(s, 1, IndexRune(s, sep) - 1)>>
         \o Split(SubSeq(s, IndexRune(s, sep) + 1, Len(s)), sep)

\* strings.SplitN(s, sep, n)
RECURSIVE SplitN(_, _, _)
SplitN(s, sep, n) ==
    IF n = 1 \/ IndexRune(s, sep) = 0 THEN <<s>>
    ELSE <<SubSeq(s, 1, IndexRune(s, sep) - 1)>>
         \o SplitN(SubSeq(s, IndexRune(s, sep) + 1, Len(s)), sep, n - 1)

\* strconv.ParseUint(s, 10, 64) and its inverse
RECURSIVE ParseUint(_)
ParseUint(s) ==
    IF Len(s) = 0 \/ ~ContainsOnlyNumbers(s) THEN [ok |-> FALSE, n |-> 0]
    ELSE IF Len(s) = 1 THEN [ok |-> TRUE, n |-> Atoi(s[1]).n]
    ELSE [ok |-> TRUE,
          n |-> ParseUint(SubSeq(s, 1, Len(s) - 1)).n * 10 + Atoi(s[Len(s)]).n]

RECURSIVE FormatUint(_)
FormatUint(n) == IF n < 10 THEN <<Itoa(n)>> ELSE FormatUint(n \div 10) \o <<Itoa(n % 10)>>

\* one number of Major.Minor.Patch
VersionNumber(s) ==
    IF ~ContainsOnlyNumbers(s) \/ HasLeadingZeroes(s) THEN [ok |-> FALSE, n |-> 0]
    ELSE ParseUint(s)

\* semver.NewPRVersion: is s a pre-release identifier
IsPRVersion(s) ==
    /\ Len(s) > 0
    /\ IF ContainsOnlyNumbers(s) THEN ~HasLeadingZeroes(s) ELSE ContainsOnlyAlphaNum(s)

IsBuildMeta(s) == Len(s) > 0 /\ ContainsOnlyAlphaNum(s)

Version(major, minor, patch, pre, build) ==
    [Major |-> major, Minor |-> minor, Patch |-> patch, Pre |-> pre, Build |-> build]

SemverFail == [ok |-> FALSE, v |-> Version(0, 0, 0, <<>>, <<>>)]

SemverMake(s) ==
    IF Len(s) = 0 THEN SemverFail
    ELSE LET parts == SplitN(s, ".", 3)
         IN  IF Len(parts) # 3 THEN SemverFail
             ELSE LET buildIndex == IndexRune(parts[3], "+")
                      build == IF buildIndex = 0 THEN <<>>
                               ELSE Split(SubSeq(parts[3], buildIndex + 1, Len(parts[3])), ".")
                      noBuild == IF buildIndex = 0 THEN parts[3]
                                 ELSE SubSeq(parts[3], 1, buildIndex - 1)
                      preIndex == IndexRune(noBuild, "-")
                      pre == IF preIndex = 0 THEN <<>>
                             ELSE Split(SubSeq(noBuild, preIndex + 1, Len(noBuild)), ".")
                      patchStr == IF preIndex = 0 THEN noBuild
                                  ELSE SubSeq(noBuild, 1, preIndex - 1)
                  IN  IF /\ VersionNumber(parts[1]).ok
                         /\ VersionNumber(parts[2]).ok
                         /\ VersionNumber(patchStr).ok
                         /\ \A i \in 1..Len(pre) : IsPRVersion(pre[i])
                         /\ \A i \in 1..Len(build) : IsBuildMeta(build[i])
                      THEN [ok |-> TRUE,
                            v |-> Version(VersionNumber(parts[1]).n, VersionNumber(parts[2]).n,
                                          VersionNumber(patchStr).n, pre, build)]
                      ELSE SemverFail

RECURSIVE JoinWith(_, _)
JoinWith(parts, sep) ==
    IF Len(parts) = 0 THEN <<>>
    ELSE IF Len(parts) = 1 THEN parts[1]
    ELSE parts[1] \o <<sep>> \o JoinWith(Tail(parts), sep)

\* Version.String()
SemverString(v) ==
    FormatUint(v.Major) \o <<".">> \o FormatUint(v.Minor) \o <<".">> \o FormatUint(v.Patch)
    \o (IF Len(v.Pre) > 0 THEN <<"-">> \o JoinWith(v.Pre, ".") ELSE <<>>)
    \o (IF Len(v.Build) > 0 THEN <<"+">> \o JoinWith(v.Build, ".") ELSE <<>>)

\* strings.TrimPrefix(s, "v"): at most one leading v is removed
TrimPrefixV(s) == IF Len(s) > 0 /\ s[1] = "v" THEN Tail(s) ELSE s

\* strings.TrimLeft(s, "v"): every leading character of the cutset is removed
RECURSIVE TrimLeftV(_)
TrimLeftV(s) == IF Len(s) > 0 /\ s[1] = "v" THEN TrimLeftV(Tail(s)) ELSE s

releaseName(tagName) == TrimLeftV(tagName)

(***************************************************************************)
(* The version records of the two registries.  A tag is a client.Tag: its  *)
(* name, its commit and the metadata file at that commit.                  *)
(***************************************************************************)
ClientTag(name, reference, metadata) ==
    [Name |-> name, Reference |-> reference, Metadata |-> metadata]

\* npmVersion with its npmDist (Sha, Tarball) and composerVersion with its
\* composerDist (Url as Tarball, Type, Reference)
VersionRec(version, name, reference, tarball, sha, distType) ==
    [Version |-> version, Name |-> name, Reference |-> reference,
     Tarball |-> tarball, Sha |-> sha, DistType |-> distType,
     NameVersion |-> <<name, version>>]

\* strings.TrimLeft(s, "/") and strings.TrimRight(s, "/")
RECURSIVE TrimLeftSlash(_)
TrimLeftSlash(s) == IF Len(s) > 0 /\ s[1] = "/" THEN TrimLeftSlash(Tail(s)) ELSE s

RECURSIVE TrimRightSlash(_)
TrimRightSlash(s) ==
    IF Len(s) > 0 /\ s[Len(s)] = "/" THEN TrimRightSlash(SubSeq(s, 1, Len(s) - 1)) ELSE s

NpmDistFmt == <<"/", "npm", "/", "%s", "/", "%s", ".tgz">>

ComposerDistFmt == <<"/", "composer", "/", "%s", "/", "%s", ".zip">>

\* getPackageDownloadURL: env is PAVLIK_PUBLIC_HOST, scheme and host are
\* those of the request
getPackageDownloadURL(env, scheme, host, distFmt) ==
    (IF TrimRightSlash(env) = <<>>
     THEN (IF scheme = <<>> THEN <<"http">> ELSE scheme) \o <<"://">>
          \o TrimRightSlash(IF host = <<>> THEN <<"localhost">> ELSE host)
     ELSE TrimRightSlash(env))
    \o <<"/">> \o TrimLeftSlash(distFmt)

\* fmt.Sprintf(format, args...): each %s is replaced by the next argument
RECURSIVE Sprintf(_, _)
Sprintf(format, args) ==
    IF Len(format) = 0 THEN <<>>
    ELSE IF format[1] = "%s" /\ Len(args) > 0
    THEN args[1] \o Sprintf(Tail(format), Tail(args))
    ELSE <<format[1]>> \o Sprintf(Tail(format), args)

\* fmt.Sprintf(endpoint, uuid, ref)
DownloadURL(endpoint, uuid, ref) == Sprintf(endpoint, <<uuid, ref>>)

\* the goroutine of NpmPackage.fillVersions for one tag; archive is what
\* GetArchive and the archive cache gave for the tag's commit
npmVersionOf(endpoint, uuid, tag, archive) ==
    IF ~SemverMake(releaseName(tag.Name)).ok THEN Nil
    ELSE IF archive.err # NoErr THEN Nil
    ELSE Some(VersionRec(SemverString(SemverMake(releaseName(tag.Name)).v),
                         GetString(tag.Metadata, "name"), tag.Reference,
                         DownloadURL(endpoint, uuid, tag.Reference), archive.sum, <<>>))

\* a versionListFromTags that does not put the v back
composerVersionOfBare(endpoint, uuid, tag) ==
    IF ~SemverMake(releaseName(tag.Name)).ok THEN Nil
    ELSE IF GetStringErr(tag.Metadata, "name") THEN Nil
    ELSE Some(VersionRec(SemverString(SemverMake(releaseName(tag.Name)).v),
                         GetString(tag.Metadata, "name"), tag.Reference,
                         DownloadURL(endpoint, uuid, tag.Reference), <<>>, <<"zip">>))

\* the goroutine of ComposerPackage.versionListFromTags for one tag, with
\* fillMetadata
composerVersionOf(endpoint, uuid, tag) ==
    IF ~SemverMake(releaseName(tag.Name)).ok THEN Nil
    ELSE IF GetStringErr(tag.Metadata, "name") THEN Nil
    ELSE Some(VersionRec(<<"v">> \o SemverString(SemverMake(releaseName(tag.Name)).v),
                         GetString(tag.Metadata, "name"), tag.Reference,
                         DownloadURL(endpoint, uuid, tag.Reference), <<>>, <<"zip">>))

\* the records in the order given, keyed by the named field, the later one
\* replacing an earlier one with the same key: p.Versions[v.Version] = *v
RECURSIVE MapOf(_, _)
MapOf(recs, keys) ==
    IF Len(recs) = 0 THEN <<>>
    ELSE LET m == MapOf(SubSeq(recs, 1, Len(recs) - 1), keys)
             r == recs[Len(recs)]
         IN  [k \in DOMAIN m \cup {r[keys]} |-> IF k = r[keys] THEN r ELSE m[k]]

\* the possible values of NpmPackage.Versions: the records arrive in any order
fillVersions(endpoint, uuid, tagList, archives) ==
    LET got == {i \in 1..Len(tagList) :
                   npmVersionOf(endpoint, uuid, tagList[i], archives[i]) # Nil}
    IN  {MapOf([k \in 1..Len(order) |->
                   npmVersionOf(endpoint, uuid, tagList[order[k]], archives[order[k]])[1]],
               "Version") :
            order \in Perms(got)}

\* the possible values of ComposerPackage.Packages, keyed by name and version
composerFillVersions(endpoint, uuid, tagList) ==
    LET got == {i \in 1..Len(tagList) : composerVersionOf(endpoint, uuid, tagList[i]) # Nil}
    IN  {MapOf([k \in 1..Len(order) |->
                   composerVersionOf(endpoint, uuid, tagList[order[k]])[1]],
               "NameVersion") :
            order \in Perms(got)}

(***************************************************************************)
(* Tag lists for the version mappings: names with no, one and two leading  *)
(* v in front of versions and of strings that are not versions.            *)
(***************************************************************************)
VersionCores ==
    {<<"1", ".", "0", ".", "0">>, <<"1", ".", "2">>, <<>>, <<"0", "1", ".", "0", ".", "0">>,
     <<"1", ".", "0", ".", "0", "-", "r", "c", ".", "1">>, <<"1", ".", "0", ".", "0", "+", "b">>,
     <<"1", "0", ".", "2", ".", "3">>, <<"1", ".", "0", ".", "x">>}

VPrefixes == {<<>>, <<"v">>, <<"v", "v">>}

TagNames == {p \o c : p \in VPrefixes, c \in VersionCores}

MetadataNamed == [name |-> JStr(<<"acme/lib">>)]

MetadataNameless == [description |-> JStr(<<"lib">>)]

\* name and metadata of a tag; the tag at position i has commit c<i>
TagChoices ==
    {[Name |-> n, Metadata |-> MetadataNamed] : n \in TagNames}
    \cup {[Name |-> <<"v", "1", ".", "0", ".", "0">>, Metadata |-> MetadataNameless]}

MaxTags == 2

\* the tags after the first: the names that normalise to one version, a
\* name that is no version, a manifest with no name
LaterTagChoices ==
    {[Name |-> p \o c, Metadata |-> MetadataNamed] :
        p \in VPrefixes, c \in {<<"1", ".", "0", ".", "0">>}}
    \cup {[Name |-> <<"1", ".", "0", ".", "x">>, Metadata |-> MetadataNamed],
          [Name |-> <<"v", "1", ".", "0", ".", "0">>, Metadata |-> MetadataNameless]}

\* a repository has one tag of a name
DistinctNames(q) == \A i \in 1..Len(q) : \A j \in 1..Len(q) : q[i].Name = q[j].Name => i = j

TagLists ==
    {[i \in 1..Len(q) |-> ClientTag(q[i].Name, <<"c", Itoa(i)>>, q[i].Metadata)] :
        q \in {w \in {<<>>} \cup {<<first>> \o later : first \in TagChoices,
                                      later \in SeqsUpTo(LaterTagChoices, MaxTags - 1)} :
                  DistinctNames(w)}}

\* PAVLIK_PUBLIC_HOST and the scheme and host of the request
HostInputs ==
    {[env |-> <<>>, scheme |-> <<>>, host |-> <<>>],
     [env |-> <<>>, scheme |-> <<"https">>, host |-> <<"pavlik", ":", "4000">>],
     [env |-> <<"https", "://", "pkg">>, scheme |-> <<>>, host |-> <<"pavlik", ":", "4000">>],
     [env |-> <<"https", "://", "pkg", "/">>, scheme |-> <<>>, host |-> <<>>]}

ViewCall(op, tagList, done, versions, from) ==
    [op |-> op, tagList |-> tagList, done |-> done, versions |-> versions, from |-> from]

InitView ==
    /\ client = Nil
    /\ last \in {ViewCall(op, tagList, FALSE, <<>>, from) :
                    op \in {"fillVersions", "versionListFromTags"}, tagList \in TagLists,
                    from \in HostInputs}
    /\ clientCache = <<>>
    /\ archiveCache = <<>>
    /\ now = 0
    /\ conns = <<>>

ArchiveGot == [err |-> NoErr, sum |-> <<"sha1">>]

ArchiveFailed == [err |-> "archive", sum |-> <<>>]

\* NpmPackage.fillVersions; the archive of any tag may fail to arrive
DoNpmFillVersions ==
    /\ ~last.done
    /\ last.op = "fillVersions"
    /\ \E failed \in SUBSET (1..Len(last.tagList)) :
          \E versions \in fillVersions(
                            getPackageDownloadURL(last.from.env, last.from.scheme,
                                                  last.from.host, NpmDistFmt),
                            U1, last.tagList,
                            [i \in 1..Len(last.tagList) |->
                                IF i \in failed THEN ArchiveFailed ELSE ArchiveGot]) :
             last' = ViewCall(last.op, last.tagList, TRUE, versions, last.from)
    /\ UNCHANGED <<client, cacheVars>>

\* ComposerPackage.fillVersions over versionListFromTags
DoComposerFillVersions ==
    /\ ~last.done
    /\ last.op = "versionListFromTags"
    /\ \E versions \in composerFillVersions(
                         getPackageDownloadURL(last.from.env, last.from.scheme,
                                               last.from.host, ComposerDistFmt),
                         U2, last.tagList) :
          last' = ViewCall(last.op, last.tagList, TRUE, versions, last.from)
    /\ UNCHANGED <<client, cacheVars>>

NextView == DoNpmFillVersions \/ DoComposerFillVersions

SpecView == InitView /\ [][NextView]_vars

\* C10: a tag whose name, one leading v removed, is not a semantic version
\* has no record in the versions mapping (JS) or the packages mapping (PHP).
C10_SemverFilterOneV ==
    last.done =>
       \A i \in 1..Len(last.tagList) :
          ~SemverMake(TrimPrefixV(last.tagList[i].Name)).ok =>
             \A k \in DOMAIN last.versions :
                last.versions[k].Reference # last.tagList[i].Reference

(***************************************************************************)
(* The upstream behind the archive and document routes.  The catalogue     *)
(* project holds one catalogue file with an npm and a composer entry; the  *)
(* file of project p decodes to the document of p.  health: "up", or      *)
(* "lost": the version probe is answered, the calls after it are not;      *)
(* "tagged": as "up", after one more tag was pushed to the project PJ1;    *)
(* one of Faults: as "tagged", with one kind of call failing; one of       *)
(* FaultsOfThing: as "up", with one kind of call failing for PJ2 only.     *)
(***************************************************************************)
Only(S) == CHOOSE x \in S : TRUE

Health == {"up", "lost"}

Visible(token, pid) ==
    \E i \in 1..Len(VisibleJson(token)) : VisibleJson(token)[i].id = pid

Upstream(health, token, pid, body) ==
    IF health = "lost" THEN NetErr
    ELSE IF ~Visible(token, pid) THEN Resp(404, BodyError)
    ELSE Resp(200, body)

\* an upstream that fails one kind of call and answers the others: the tag
\* list, the metadata file at master, the metadata file at the commit c1,
\* the archive; the call gets no answer (Lost) or a 404 (Gone)
FaultsOfThing == {"tagsLostThing", "masterLostThing"}

Faults ==
    {"tagsLost", "tagsGone", "masterLost", "masterGone",
     "tagFileLost", "tagFileGone", "archiveLost", "archiveGone"}

FaultAnswer(health) ==
    IF health \in {"tagsLost", "masterLost", "tagFileLost", "archiveLost"}
    THEN NetErr ELSE Resp(404, BodyError)

V100 == <<"v", "1", ".", "0", ".", "0">>

V200 == <<"2", ".", "0", ".", "0">>

V110 == <<"v", "1", ".", "1", ".", "0">>

C3Ref == <<"c3">>

UpstreamTags(health, pid) ==
    IF pid = PJ1.id
    THEN (IF health = "tagged" \/ health \in Faults THEN <<TagJson(V110, C3Ref)>> ELSE <<>>)
         \o <<TagJson(V100, C1Ref)>>
    ELSE IF pid = PJ2.id THEN <<TagJson(V200, C2Ref)>>
    ELSE <<>>

CatalogueDoc ==
    <<EntryOf({<<"acme", JStr(UrlOf(PJ1))>>, <<"uuid", JStr(U1)>>,
               <<"tag", JArr(<<JStr(<<"npm">>)>>)>>}),
      EntryOf({<<"acme", JStr(PJ2.ssh_url_to_repo)>>, <<"uuid", JStr(U2)>>,
               <<"tag", JArr(<<JStr(<<"composer">>)>>)>>})>>

NpmName == <<"@acme", "/", "lib">>

ComposerName == <<"acme", "/", "thing">>

NpmDescription == <<"a", " ", "library">>

ComposerDescription == <<"a", " ", "thing">>

\* the bytes of the metadata or catalogue file of project pid
FileOfProject(pid) == <<pid>>

repoListJsonFile == <<"repo.json">>

composerMetadataFile == <<"composer.json">>

npmMetadataFile == <<"package.json">>

\* the file of a project that the catalogue and the kinds it is declared
\* under make the program ask for
FileNameOf(pid) ==
    IF pid = PJ0.id THEN repoListJsonFile
    ELSE IF pid = PJ1.id THEN npmMetadataFile ELSE composerMetadataFile

\* the project PJ1 has a composer.json next to its package.json
ComposerFileOfLib == <<PJ1.id, PJ1.id>>

FileExists(pid, path) ==
    path = FileNameOf(pid) \/ (pid = PJ1.id /\ path = composerMetadataFile)

\* the bytes of the file at a path of the project pid
FileAt(pid, path) ==
    IF pid = PJ1.id /\ path = composerMetadataFile THEN ComposerFileOfLib
    ELSE FileOfProject(pid)

LibComposerName == <<"acme", "/", "lib">>

\* json.Unmarshal(fileContent, rec): rec is a list for the catalogue, an
\* object for a metadata file
JsonUnmarshal(fileContent, wantList) ==
    IF fileContent = FileOfProject(PJ0.id)
    THEN [ok |-> wantList, doc |-> IF wantList THEN CatalogueDoc ELSE <<>>]
    ELSE IF fileContent = FileOfProject(PJ1.id) /\ ~wantList
    THEN [ok |-> TRUE, doc |-> [name |-> JStr(NpmName), description |-> JStr(NpmDescription)]]
    ELSE IF fileContent = FileOfProject(PJ2.id) /\ ~wantList
    THEN [ok |-> TRUE,
          doc |-> [name |-> JStr(ComposerName), description |-> JStr(ComposerDescription)]]
    ELSE IF fileContent = ComposerFileOfLib /\ ~wantList
    THEN [ok |-> TRUE,
          doc |-> [name |-> JStr(LibComposerName), description |-> JStr(NpmDescription)]]
    ELSE [ok |-> FALSE, doc |-> <<>>]

(***************************************************************************)
(* Archives and the repack.  An archive is its format, the tree it holds   *)
(* (the files of a project at a ref), the name of the top-level directory  *)
(* of the tree, the number of top-level entries and the modification time  *)
(* its entries carry.  A scratch tree on disk has the directory it was     *)
(* extracted to as well.                                                   *)
(***************************************************************************)
Bind(v, F(_)) == Only({F(x) : x \in {v}})

\* the tar.gz the upstream builds of a project at a ref
ArchiveBytes(pid, ref) ==
    [fmt |-> "tar.gz", project |-> pid, ref |-> ref,
     root |-> <<"project">> \o FormatUint(pid) \o <<"-">> \o ref, tops |-> 1, mtime |-> 0]

\* unGzip succeeds on a body that is a tar.gz
IsTarGz(src) == src.k = "bytes" /\ src.v.fmt = "tar.gz"

\* time.Date(2016, time.October, 16, 23, 0, 0, 0, time.UTC), in seconds
archiveTime == 1476658800

\* a recursiveSetFileTime that leaves the times as they are
recursiveSetFileTimeKept(mtime) == mtime

\* recursiveSetFileTime: the time every entry under the root has after it
recursiveSetFileTime(mtime) == archiveTime

\* u := uuid.NewV4().String()
ScratchNames == {<<"s1">>, <<"s2">>}

\* filepath.Join(t, fmt.Sprintf("dir_%s", u))
ScratchDir(u) == <<"tmp", "/", "dir_">> \o u

unGzip(src) ==
    IF IsTarGz(src) THEN OpResult(NoErr, Some([src.v EXCEPT !.fmt = "tar"]))
    ELSE OpResult("gzip: invalid header", Nil)

\* unTar at the time t: the entries are made at t, putFileContents and the
\* closing recursiveSetFileTime(targetDir) set their times
unTar(tar, targetDir, t) ==
    [dir |-> targetDir, project |-> tar.project, ref |-> tar.ref, root |-> tar.root,
     tops |-> tar.tops, mtime |-> recursiveSetFileTime(t)]

\* ioutil.ReadDir, the check for one entry, os.Rename to <uuid>-<ref>
renameTop(tree, repoUUID, repoRef) ==
    IF tree.tops # 1 THEN OpResult("Broken archive received from GitLab", Nil)
    ELSE OpResult(NoErr, Some([tree EXCEPT !.root = repoUUID \o <<"-">> \o repoRef]))

\* makeTar and makeZip: recursiveSetFileTime(sourceDir), then AddAll of the
\* directory with the directory itself: the entries are named from the
\* base name of sourceDir on
makeTar(tree) ==
    [fmt |-> "tar", project |-> tree.project, ref |-> tree.ref, root |-> tree.root,
     tops |-> 1, mtime |-> recursiveSetFileTime(tree.mtime)]

makeZip(tree) ==
    [fmt |-> "zip", project |-> tree.project, ref |-> tree.ref, root |-> tree.root,
     tops |-> 1, mtime |-> recursiveSetFileTime(tree.mtime)]

\* gzip.NewWriter with the header left empty
makeGzip(tar) == [tar EXCEPT !.fmt = "tgz"]

pack(tree, fmt) == IF fmt = "tgz" THEN makeGzip(makeTar(tree)) ELSE makeZip(tree)

\* the repack of PutNpmArchiveToCache (fmt "tgz") and GetComposerArchive
\* (fmt "zip") run at the time t with the scratch name u
RepackAt(src, fmt, repoUUID, repoRef, u, t) ==
    IF unGzip(src).err # NoErr THEN unGzip(src)
    ELSE Bind(renameTop(unTar(unGzip(src).val[1], ScratchDir(u), t), repoUUID, repoRef),
              LAMBDA renamed :
            IF renamed.err # NoErr THEN renamed
            ELSE OpResult(NoErr, Some(Body("bytes", pack(renamed.val[1], fmt)))))

MaxRepackTime == 2

\* the repack whenever and under whatever scratch name it runs
Repack(src, fmt, repoUUID, repoRef) ==
    Only({RepackAt(src, fmt, repoUUID, repoRef, u, t) :
             u \in ScratchNames, t \in 0..MaxRepackTime})

\* the guard of every cache access on a ref, and a variant that lets
\* master through
IsMasterRefNever(ref) == FALSE

IsMasterRef(ref) == ref = Master

V4Client == ClientRec(TRUE, FALSE, "/api/v4")

(***************************************************************************)
(* GitLabConnection, one request at a time: each operator takes the        *)
(* connection cache cc (and the archive cache ac) and returns it as the    *)
(* operation leaves it.  Bind(v, F) is F applied to the value of v, v      *)
(* being evaluated once, as the result of a call assigned to a variable.   *)
(***************************************************************************)
\* asked: the call has asked the upstream for the file
JsonResult(err, cc, content, asked) ==
    [err |-> err, cc |-> cc, content |-> content, asked |-> asked]

UpstreamFile(health, token, pid, ref, path) ==
    IF \/ health \in {"masterLost", "masterGone"} /\ ref = Master /\ pid # PJ0.id
       \/ health \in {"tagFileLost", "tagFileGone"} /\ ref = C1Ref
    THEN FaultAnswer(health)
    ELSE IF health = "masterLostThing" /\ ref = Master /\ pid = PJ2.id THEN NetErr
    ELSE IF health # "lost" /\ ~FileExists(pid, path) THEN Resp(404, BodyError)
    ELSE Upstream(health, token, pid,
                  Body("object", FileJson(B64Encode(FileAt(pid, path)), "base64")))

\* cacheKey := fmt.Sprintf("json_%d_%s", p.ID, ref), and a key with the path
jsonCacheKeyWithPath(p, ref, path) == Join(<<<<"json">>, FormatUint(p.ID), ref, path>>)

jsonCacheKey(p, ref, path) == Join(<<<<"json">>, FormatUint(p.ID), ref>>)

\* a lookup that never finds the file in the cache
JsonCachedNever(cc, cacheKey, ref) == FALSE

\* if ref != "master" { item, ok = globalCache.Get(cacheKey) }
JsonCached(cc, cacheKey, ref) == ~IsMasterRef(ref) /\ CacheHas(cc, cacheKey)

\* GitLabConnection.fetchJsonFile, json.Unmarshal left to the caller
fetchJsonFileAt(cc, token, health, p, ref, path) ==
    LET cacheKey == jsonCacheKey(p, ref, path)
    IN  IF ~JsonCached(cc, cacheKey, ref)
        THEN Bind(UpstreamFile(health, token, p.ID, ref, path), LAMBDA file :
             Bind(Only(GetFile(V4Client, file, file, NoPages)), LAMBDA got :
                IF got.err # NoErr THEN JsonResult(got.err, cc, Nil, TRUE)
                ELSE JsonResult(NoErr,
                                IF ~IsMasterRef(ref)
                                THEN CacheAdd(cc, cacheKey, CachedBytes(got.val)) ELSE cc,
                                got.val, TRUE)))
        ELSE IF cc[cacheKey].type # "bytes"
        THEN JsonResult("Cache broken", CacheRemove(cc, cacheKey), Nil, FALSE)
        ELSE JsonResult(NoErr, cc, cc[cacheKey].bytes, FALSE)

\* fetchJsonFile as fetchBasicData and fetchRepoData call it for the
\* projects of the catalogue: the path is that of the project's one kind
fetchJsonFile(cc, token, health, p, ref) ==
    fetchJsonFileAt(cc, token, health, p, ref, FileNameOf(p.ID))

ProjectListResult(err, cc, list) ==
    [err |-> err, cc |-> cc, visibleProjectList |-> list,
     containerRepo |-> LocateContainerRepo(list)]

\* a fetchProjectList that stores the list only once the catalogue's
\* project has been found in it
fetchProjectListStoreFound(cc, token, health, t) ==
    LET key == getProjectListCacheKey(token)
        hit == CacheHas(cc, key) /\ cc[key].type = "cachedProjectList"
        fresh == hit /\ ~Expired(cc[key].Expire, t)
        cc1 == IF hit /\ ~fresh THEN CacheRemove(cc, key) ELSE cc
    IN  IF fresh
        THEN ProjectListResult(LocateErr(cc[key].ProjectList), cc, cc[key].ProjectList)
        ELSE Bind(Only(GetProjectList(IF health # "lost"
                                      THEN Resp(200, Body("array", VisibleJson(token)))
                                      ELSE NetErr, NoPages)), LAMBDA got :
                IF got.err # NoErr THEN ProjectListResult(got.err, cc1, <<>>)
                ELSE ProjectListResult(
                        LocateErr(got.val[1]),
                        IF LocateErr(got.val[1]) = NoErr
                        THEN CacheAdd(cc1, key, cachedProjectList(t + TTL, got.val[1], token))
                        ELSE cc1,
                        got.val[1]))

fetchProjectList(cc, token, health, t) ==
    LET key == getProjectListCacheKey(token)
        hit == CacheHas(cc, key) /\ cc[key].type = "cachedProjectList"
        fresh == hit /\ ~Expired(cc[key].Expire, t)
        cc1 == IF hit /\ ~fresh THEN CacheRemove(cc, key) ELSE cc
    IN  IF fresh
        THEN ProjectListResult(LocateErr(cc[key].ProjectList), cc, cc[key].ProjectList)
        ELSE Bind(Only(GetProjectList(IF health # "lost"
                                      THEN Resp(200, Body("array", VisibleJson(token)))
                                      ELSE NetErr, NoPages)), LAMBDA got :
                IF got.err # NoErr THEN ProjectListResult(got.err, cc1, <<>>)
                ELSE ProjectListResult(
                        LocateErr(got.val[1]),
                        CacheAdd(cc1, key, cachedProjectList(t + TTL, got.val[1], token)),
                        got.val[1]))

\* a binding that compares the clone url with the http url only
filterProjectListHTTP(containerRepoList, visibleProjectList) ==
    LET Matches(item, project) == project.HTTPURL = item.GitURL
        Found(item) == \E i \in 1..Len(visibleProjectList) :
                          Matches(item, visibleProjectList[i])
        First(item) == visibleProjectList[
                          CHOOSE i \in 1..Len(visibleProjectList) :
                             /\ Matches(item, visibleProjectList[i])
                             /\ \A j \in 1..(i - 1) : ~Matches(item, visibleProjectList[j])]
        kept == SelectSeq(containerRepoList, Found)
    IN  [k \in 1..Len(kept) |->
            [GitURL |-> kept[k].GitURL, UUID |-> kept[k].UUID,
             LabelList |-> kept[k].LabelList, Project |-> First(kept[k])]]

\* the entries whose clone url is the http or ssh url of a visible project,
\* each with the first such project
filterProjectList(containerRepoList, visibleProjectList) ==
    LET Matches(item, project) ==
            project.HTTPURL = item.GitURL \/ project.SSHURL = item.GitURL
        Found(item) == \E i \in 1..Len(visibleProjectList) :
                          Matches(item, visibleProjectList[i])
        First(item) == visibleProjectList[
                          CHOOSE i \in 1..Len(visibleProjectList) :
                             /\ Matches(item, visibleProjectList[i])
                             /\ \A j \in 1..(i - 1) : ~Matches(item, visibleProjectList[j])]
        kept == SelectSeq(containerRepoList, Found)
    IN  [k \in 1..Len(kept) |->
            [GitURL |-> kept[k].GitURL, UUID |-> kept[k].UUID,
             LabelList |-> kept[k].LabelList, Project |-> First(kept[k])]]

\* what fetchBasicData leaves: its error, the cache, packageRepoList, and the
\* index files it asked the upstream for (project id, ref)
BasicData(err, cc, packageRepoList, indexFiles) ==
    [err |-> err, cc |-> cc, packageRepoList |-> packageRepoList,
     indexFiles |-> indexFiles]

\* what the catalogue file gave: a file that cannot be read counts as empty
SourceJsonData(file) ==
    IF file.err = NoErr /\ JsonUnmarshal(file.content[1], TRUE).ok
    THEN JsonUnmarshal(file.content[1], TRUE).doc ELSE <<>>

\* fetchProjectList, fetchSourceRepoList, filterProjectList
fetchBasicData(cc, token, health, kind, t) ==
    Bind(fetchProjectList(cc, token, health, t), LAMBDA pl :
       IF pl.err # NoErr THEN BasicData(pl.err, pl.cc, <<>>, <<>>)
       ELSE Bind(fetchJsonFile(pl.cc, token, health, pl.containerRepo[1], Master), LAMBDA file :
               BasicData(NoErr, file.cc,
                         filterProjectList(
                            Only(fetchSourceRepoList(SourceJsonData(file), kind)),
                            pl.visibleProjectList),
                         <<<<pl.containerRepo[1].ID, Master>>>>)))

findPackageRepoByUUID(packageRepoList, uuid) ==
    IF \E i \in 1..Len(packageRepoList) : packageRepoList[i].UUID = uuid
    THEN Some(packageRepoList[CHOOSE i \in 1..Len(packageRepoList) :
                 /\ packageRepoList[i].UUID = uuid
                 /\ \A j \in 1..(i - 1) : packageRepoList[j].UUID # uuid])
    ELSE Nil

ArchiveResult(err, cc, archive) == [err |-> err, cc |-> cc, archive |-> archive]

UpstreamArchive(health, token, pid, ref) ==
    IF health \in {"archiveLost", "archiveGone"} THEN FaultAnswer(health)
    ELSE Upstream(health, token, pid, Body("bytes", ArchiveBytes(pid, ref)))

\* GitLabConnection.GetArchive
GetArchive(cc, token, health, kind, uuid, ref, t) ==
    LET cacheKey == Join(<<<<kind>>, uuid, ref>>)
    IN  IF ~IsMasterRef(ref) /\ CacheHas(cc, cacheKey)
        THEN IF cc[cacheKey].type # "bytes"
             THEN ArchiveResult("Cache broken", CacheRemove(cc, cacheKey), Nil)
             ELSE ArchiveResult(NoErr, cc, cc[cacheKey].bytes)
        ELSE Bind(fetchBasicData(cc, token, health, kind, t), LAMBDA basic :
             IF basic.err # NoErr THEN ArchiveResult(basic.err, basic.cc, Nil)
             ELSE Bind(findPackageRepoByUUID(basic.packageRepoList, uuid), LAMBDA packageRepo :
                  IF packageRepo = Nil
                  THEN ArchiveResult("Project with uuid not found", basic.cc, Nil)
                  ELSE Bind(Only(ClientGetArchive(
                                    UpstreamArchive(health, token, packageRepo[1].Project.ID, ref),
                                    NoPages)), LAMBDA got :
                       IF got.err # NoErr THEN ArchiveResult(got.err, basic.cc, Nil)
                       ELSE ArchiveResult(NoErr,
                                          IF ~IsMasterRef(ref)
                                          THEN CacheAdd(basic.cc, cacheKey, CachedBytes(got.val))
                                          ELSE basic.cc,
                                          got.val))))

(***************************************************************************)
(* helpers: the archive cache.  The registry reaches it as                 *)
(* helpers.DataFromCache and helpers.DataToCache; the helpers package      *)
(* defines the npm archive cache under the names GetNpmArchiveFromCache    *)
(* and PutNpmArchiveToCache, which are the operations modelled here.       *)
(***************************************************************************)
PackResult(err, ac, archive) == [err |-> err, ac |-> ac, archive |-> archive]

\* sha1.Sum over a byte string, as hex: one digest for each byte string
Sha1(b) == <<"sha1", b>>

archiveKey(repoUUID, repoRef) == Join(<<<<"archive">>, repoUUID, repoRef>>)

GetNpmArchiveFromCache(ac, repoUUID, repoRef) ==
    LET cacheKey == archiveKey(repoUUID, repoRef)
    IN  IF ~CacheHas(ac, cacheKey) THEN PackResult("No cache found", ac, Nil)
        ELSE IF ac[cacheKey].type # "bytes"
        THEN PackResult("Cache broken", CacheRemove(ac, cacheKey), Nil)
        ELSE PackResult(NoErr, ac, ac[cacheKey].bytes)

PutNpmArchiveToCache(ac, src, repoUUID, repoRef) ==
    Bind(GetNpmArchiveFromCache(ac, repoUUID, repoRef), LAMBDA cached :
       IF cached.err = NoErr THEN cached
       ELSE Bind(Repack(src, "tgz", repoUUID, repoRef), LAMBDA npmArchive :
               IF npmArchive.err # NoErr THEN PackResult(npmArchive.err, cached.ac, Nil)
               ELSE PackResult(NoErr,
                               IF ~IsMasterRef(repoRef)
                               THEN CacheAdd(cached.ac, archiveKey(repoUUID, repoRef),
                                             CachedBytes(npmArchive.val))
                               ELSE cached.ac,
                               npmArchive.val)))

GetComposerArchive(ac, src, repoUUID, repoRef) ==
    LET cacheKey == archiveKey(repoUUID, repoRef)
    IN  IF ~IsMasterRef(repoRef) /\ CacheHas(ac, cacheKey)
        THEN IF ac[cacheKey].type # "bytes"
             THEN PackResult("Cache broken", CacheRemove(ac, cacheKey), Nil)
             ELSE PackResult(NoErr, ac, ac[cacheKey].bytes)
        ELSE Bind(Repack(src, "zip", repoUUID, repoRef), LAMBDA composerArchive :
                IF composerArchive.err # NoErr THEN PackResult(composerArchive.err, ac, Nil)
                ELSE PackResult(NoErr,
                                IF ~IsMasterRef(repoRef)
                                THEN CacheAdd(ac, cacheKey, CachedBytes(composerArchive.val))
                                ELSE ac,
                                composerArchive.val))

(***************************************************************************)
(* fetchRepoData and GetRepoList: the tags of a package project, its       *)
(* metadata file at master and at the commit of every tag.                 *)
(***************************************************************************)
RepoResult(err, cc, repo) == [err |-> err, cc |-> cc, repo |-> repo]

TagFiles(cc, tagList) == [cc |-> cc, TagList |-> tagList]

\* goroutines that give up every tag
fetchNoTagFiles(cc, token, health, p, tagList) == TagFiles(cc, <<>>)

\* the goroutines of fetchRepoData: a tag whose metadata file cannot be
\* read is left out
RECURSIVE fetchTagFiles(_, _, _, _, _)
fetchTagFiles(cc, token, health, p, tagList) ==
    IF Len(tagList) = 0 THEN TagFiles(cc, <<>>)
    ELSE Bind(fetchJsonFile(cc, token, health, p, tagList[1].CommitID), LAMBDA file :
         Bind(fetchTagFiles(file.cc, token, health, p, Tail(tagList)), LAMBDA rest :
            IF file.err = NoErr /\ JsonUnmarshal(file.content[1], FALSE).ok
            THEN TagFiles(rest.cc,
                          <<ClientTag(tagList[1].Name, tagList[1].CommitID,
                                      JsonUnmarshal(file.content[1], FALSE).doc)>>
                          \o rest.TagList)
            ELSE rest))

UpstreamTagList(health, token, pid) ==
    IF health \in {"tagsLost", "tagsGone"} THEN FaultAnswer(health)
    ELSE IF health = "tagsLostThing" /\ pid = PJ2.id THEN NetErr
    ELSE Upstream(health, token, pid, Body("array", UpstreamTags(health, pid)))

\* a GetTagList that keeps the tag list of a project in the cache
GetTagListCached(cc, token, health, p) ==
    LET cacheKey == Join(<<<<"tags">>, FormatUint(p.ID)>>)
    IN  IF CacheHas(cc, cacheKey) THEN OpResult(NoErr, cc[cacheKey].bytes)
        ELSE Only(GetTagList(UpstreamTagList(health, token, p.ID), NoPages))

CacheTagList(cc, p, tagList) ==
    IF tagList.err = NoErr
    THEN CacheAdd(cc, Join(<<<<"tags">>, FormatUint(p.ID)>>), CachedBytes(tagList.val))
    ELSE cc

\* the rest of fetchRepoData, once c.client.GetTagList has returned
repoDataOf(cc, token, health, src, tagList) ==
       IF tagList.err # NoErr THEN RepoResult(tagList.err, cc, Nil)
       ELSE Bind(fetchJsonFile(cc, token, health, src.Project, Master), LAMBDA file :
            IF file.err # NoErr THEN RepoResult(file.err, file.cc, Nil)
            ELSE IF ~JsonUnmarshal(file.content[1], FALSE).ok
            THEN RepoResult("json.Unmarshal", file.cc, Nil)
            ELSE Bind(fetchTagFiles(file.cc, token, health, src.Project, tagList.val[1]),
                      LAMBDA tagFiles :
                    RepoResult(NoErr, tagFiles.cc,
                               Some([Project |-> src.Project, UUID |-> src.UUID,
                                     TagList |-> tagFiles.TagList,
                                     Metadata |-> JsonUnmarshal(file.content[1], FALSE).doc]))))

\* a fetchRepoData over the caching GetTagList
fetchRepoDataCachedTags(cc, token, health, src) ==
    Bind(GetTagListCached(cc, token, health, src.Project), LAMBDA tagList :
       repoDataOf(CacheTagList(cc, src.Project, tagList), token, health, src, tagList))

\* WARNING: *do not cache* this api call
fetchRepoData(cc, token, health, src) ==
    repoDataOf(cc, token, health, src,
               Only(GetTagList(UpstreamTagList(health, token, src.Project.ID), NoPages)))

\* GitLabConnection.GetRepo
GetRepo(cc, token, health, kind, uuid, t) ==
    Bind(fetchBasicData(cc, token, health, kind, t), LAMBDA basic :
       IF basic.err # NoErr THEN RepoResult(basic.err, basic.cc, Nil)
       ELSE Bind(findPackageRepoByUUID(basic.packageRepoList, uuid), LAMBDA packageRepo :
               IF packageRepo = Nil
               THEN RepoResult("Project with uuid not found", basic.cc, Nil)
               ELSE fetchRepoData(basic.cc, token, health, packageRepo[1])))

RepoListResult(err, cc, list) == [err |-> err, cc |-> cc, list |-> list]

\* a GetRepoList that leaves out the repositories whose data it cannot fetch
RECURSIVE fetchRepoDataListSkipping(_, _, _, _)
fetchRepoDataListSkipping(cc, token, health, packageRepoList) ==
    IF Len(packageRepoList) = 0 THEN RepoListResult(NoErr, cc, <<>>)
    ELSE Bind(fetchRepoData(cc, token, health, packageRepoList[1]), LAMBDA first :
         Bind(fetchRepoDataListSkipping(first.cc, token, health, Tail(packageRepoList)),
              LAMBDA rest :
            IF first.err # NoErr THEN rest
            ELSE RepoListResult(NoErr, rest.cc, first.repo \o rest.list)))

RECURSIVE fetchRepoDataList(_, _, _, _)
fetchRepoDataList(cc, token, health, packageRepoList) ==
    IF Len(packageRepoList) = 0 THEN RepoListResult(NoErr, cc, <<>>)
    ELSE Bind(fetchRepoData(cc, token, health, packageRepoList[1]), LAMBDA first :
         IF first.err # NoErr THEN RepoListResult(first.err, first.cc, <<>>)
         ELSE Bind(fetchRepoDataList(first.cc, token, health, Tail(packageRepoList)),
                   LAMBDA rest :
                 IF rest.err # NoErr THEN rest
                 ELSE RepoListResult(NoErr, rest.cc, first.repo \o rest.list)))

GetRepoList(cc, token, health, kind, t) ==
    Bind(fetchBasicData(cc, token, health, kind, t), LAMBDA basic :
       IF basic.err # NoErr THEN RepoListResult(basic.err, basic.cc, <<>>)
       ELSE fetchRepoDataList(basic.cc, token, health, basic.packageRepoList))

(***************************************************************************)
(* NpmRegistry and ComposerRegistry                                        *)
(***************************************************************************)
Served(err, cc, ac, val) == [err |-> err, cc |-> cc, ac |-> ac, val |-> val]

NpmGetPackageArchive(cc, ac, token, health, uuid, ref, t) ==
    Bind(GetNpmArchiveFromCache(ac, uuid, ref), LAMBDA cached :
       IF cached.err = NoErr THEN Served(NoErr, cc, cached.ac, cached.archive)
       ELSE Bind(GetArchive(cc, token, health, KindNpm, uuid, ref, t), LAMBDA got :
            IF got.err # NoErr THEN Served(got.err, got.cc, cached.ac, Nil)
            ELSE Bind(PutNpmArchiveToCache(cached.ac, got.archive[1], uuid, ref), LAMBDA put :
                 IF put.err # NoErr THEN Served(put.err, got.cc, put.ac, Nil)
                 ELSE Served(NoErr, got.cc, put.ac, got.archive))))

ComposerGetPackageArchive(cc, ac, token, health, uuid, ref, t) ==
    Bind(GetArchive(cc, token, health, KindComposer, uuid, ref, t), LAMBDA got :
       IF got.err # NoErr THEN Served(got.err, got.cc, ac, Nil)
       ELSE Bind(GetComposerArchive(ac, got.archive[1], uuid, ref), LAMBDA pkg :
            IF pkg.err # NoErr THEN Served(pkg.err, got.cc, pkg.ac, Nil)
            ELSE Served(NoErr, got.cc, pkg.ac, pkg.archive)))

FoundRepo(err, cc, repo) == [err |-> err, cc |-> cc, repo |-> repo]

\* fmt.Errorf("Project with name: %s not found", name)
ErrNotFound == "Project with name not found"

\* NpmRegistry.findPackageByName, projectList being what GetRepoList gave
findPackageIn(projectList, name) ==
    IF projectList.err # NoErr THEN FoundRepo(projectList.err, projectList.cc, Nil)
    ELSE Bind(SelectSeq(projectList.list,
                        LAMBDA p : GetString(p.Metadata, "name") = name), LAMBDA named :
         IF Len(named) > 0 THEN FoundRepo(NoErr, projectList.cc, Some(named[1]))
         ELSE FoundRepo(ErrNotFound, projectList.cc, Nil))

nameWithoutNamespace(name) == SubSeq(name, IndexRune(name, "/") + 1, Len(name))

\* the head of NpmRegistry.GetPackageInfo: the project of the name asked,
\* first being what GetRepoList gives to the first findPackageByName and
\* retry what it gives to the second, asked only when the first fails
findProject(name, first, retry) ==
    Bind(findPackageIn(first, name), LAMBDA project :
       IF project.err = NoErr THEN project
       ELSE Bind(retry, LAMBDA again : findPackageIn(again, nameWithoutNamespace(name))))

TagArchives(cc, ac, archives) == [cc |-> cc, ac |-> ac, archives |-> archives]

\* sum, err := helpers.DataToCache(archive, src.UUID, tag.Reference)
ArchiveSum(put) ==
    IF put.err = NoErr THEN [err |-> NoErr, sum |-> Sha1(put.archive[1])] ELSE ArchiveFailed

\* the archives of the tags of a package, for the shasum of each version;
\* a tag that is no version asks for no archive
RECURSIVE fetchTagArchives(_, _, _, _, _, _, _)
fetchTagArchives(cc, ac, token, health, uuid, tagList, t) ==
    IF Len(tagList) = 0 THEN TagArchives(cc, ac, <<>>)
    ELSE IF ~SemverMake(releaseName(tagList[1].Name)).ok
    THEN Bind(fetchTagArchives(cc, ac, token, health, uuid, Tail(tagList), t), LAMBDA rest :
            TagArchives(rest.cc, rest.ac, <<ArchiveFailed>> \o rest.archives))
    ELSE Bind(GetArchive(cc, token, health, KindNpm, uuid, tagList[1].Reference, t),
              LAMBDA got :
         IF got.err # NoErr
         THEN Bind(fetchTagArchives(got.cc, ac, token, health, uuid, Tail(tagList), t),
                   LAMBDA rest :
                 TagArchives(rest.cc, rest.ac, <<ArchiveFailed>> \o rest.archives))
         ELSE Bind(PutNpmArchiveToCache(ac, got.archive[1], uuid, tagList[1].Reference),
                   LAMBDA put :
              Bind(fetchTagArchives(got.cc, put.ac, token, health, uuid, Tail(tagList), t),
                   LAMBDA rest :
                 TagArchives(rest.cc, rest.ac,
                             <<ArchiveSum(put)>>
                             \o rest.archives))))

\* the endpoints of the document routes: no public host is configured and
\* the requests come to the host pavlik
NpmEndpoint == getPackageDownloadURL(<<>>, <<>>, <<"pavlik">>, NpmDistFmt)

ComposerEndpoint == getPackageDownloadURL(<<>>, <<>>, <<"pavlik">>, ComposerDistFmt)

\* npmPackage as NpmRegistry.GetPackageInfo makes it, the versions filled
NpmPackage(versions) ==
    [Name |-> <<>>, Description |-> <<>>, DistTags |-> <<>>, License |-> <<>>,
     Private |-> FALSE, Versions |-> versions]

\* a fillBase that tags no version
fillBaseNoDistTags(p, src) ==
    [p EXCEPT !.Name = GetString(src.Metadata, "name"),
              !.Description = GetString(src.Metadata, "description"),
              !.License = <<"proprietary">>,
              !.Private = TRUE]

\* NpmPackage.fillBase: src is the repository, its Metadata the manifest at
\* master
fillBase(p, src) ==
    [p EXCEPT !.Name = GetString(src.Metadata, "name"),
              !.Description = GetString(src.Metadata, "description"),
              !.License = <<"proprietary">>,
              !.Private = TRUE,
              !.DistTags = [n \in DOMAIN p.Versions |-> n]]

NpmGetPackageInfo(cc, ac, token, health, name, t) ==
    Bind(GetRepoList(cc, token, health, KindNpm, t), LAMBDA first :
    Bind(findProject(name, first, GetRepoList(first.cc, token, health, KindNpm, t)),
         LAMBDA project :
       IF project.err # NoErr THEN Served(project.err, project.cc, ac, Nil)
       ELSE Bind(fetchTagArchives(project.cc, ac, token, health, project.repo[1].UUID,
                                  project.repo[1].TagList, t), LAMBDA got :
               Served(NoErr, got.cc, got.ac,
                      Some(fillBase(NpmPackage(Only(fillVersions(NpmEndpoint,
                                                                 project.repo[1].UUID,
                                                                 project.repo[1].TagList,
                                                                 got.archives))),
                                    project.repo[1]))))))

RECURSIVE composerPackages(_)
composerPackages(repoList) ==
    IF Len(repoList) = 0 THEN <<>>
    ELSE Bind(composerPackages(Tail(repoList)), LAMBDA m :
         Bind(Only(composerFillVersions(ComposerEndpoint, repoList[1].UUID,
                                        repoList[1].TagList)), LAMBDA own :
            [k \in DOMAIN m \cup DOMAIN own |-> IF k \in DOMAIN m THEN m[k] ELSE own[k]]))

ComposerGetPackageInfoList(cc, ac, token, health, t) ==
    Bind(GetRepoList(cc, token, health, KindComposer, t), LAMBDA repoList :
       IF repoList.err # NoErr THEN Served(repoList.err, repoList.cc, ac, Nil)
       ELSE Served(NoErr, repoList.cc, ac, Some(composerPackages(repoList.list))))

(***************************************************************************)
(* The archive and document routes as a state machine over the two caches. *)
(* `last` is the request served last: what was asked, by which token, and  *)
(* the answer (status and body).                                           *)
(***************************************************************************)
ArchiveTokens == {"tA", "tB", "tC", "bad"}

RequestRefs == {Master, DevMaster}

\* the refs of the tarball urls a package document hands out are asked too
NpmRequestRefs == RequestRefs \cup {C1Ref}

RequestUuids == {U1, U2}

RequestNames == {NpmName, <<"lib">>}

\* text is the plain-text body of writeErr and writeDenied, val the body of
\* writeOk and ctx.JSON
Request(op, token, uuid, ref, health, status, val, text) ==
    [op |-> op, token |-> token, uuid |-> uuid, ref |-> ref, health |-> health,
     status |-> status, val |-> val, text |-> text]

NoRequest == Request("none", "", <<>>, <<>>, "up", 0, Nil, "")

InitArchive ==
    /\ client = Nil
    /\ last = NoRequest
    /\ clientCache = <<>>
    /\ archiveCache = <<>>
    /\ now = 0
    /\ conns = <<>>

\* the middleware and a route handler: served is what the handler returns
\* once the connection is made
Route(op, token, uuid, ref, health, served) ==
    LET conn == NewConnectionFromRequest(token)
    IN  /\ last = NoRequest
        /\ IF conn.err # NoErr
           THEN /\ last' = Request(op, token, uuid, ref, health, ConnectorStatus(conn.err), Nil,
                                   IF conn.err = ErrGitLabInvalidToken THEN "Unauthorized"
                                   ELSE conn.err)
                /\ UNCHANGED <<clientCache, archiveCache>>
           ELSE /\ last' = Request(op, token, uuid, ref, health,
                                   IF served.err # NoErr THEN 500 ELSE 200, served.val,
                                   served.err)
                /\ clientCache' = served.cc
                /\ archiveCache' = served.ac
        /\ UNCHANGED <<client, now, conns>>

NpmArchiveRoute ==
    \E token \in ArchiveTokens, uuid \in RequestUuids, ref \in NpmRequestRefs, health \in Health :
       Route("npmArchive", token, uuid, ref, health,
             NpmGetPackageArchive(clientCache, archiveCache, token, health, uuid, ref, now))

ComposerArchiveRoute ==
    \E token \in ArchiveTokens, uuid \in RequestUuids, ref \in RequestRefs, health \in Health :
       Route("composerArchive", token, uuid, ref, health,
             ComposerGetPackageArchive(clientCache, archiveCache, token, health, uuid, ref, now))

NpmPackageInfoRoute ==
    \E token \in ArchiveTokens, name \in RequestNames, health \in Health :
       Route("npmPackageInfo", token, name, <<>>, health,
             NpmGetPackageInfo(clientCache, archiveCache, token, health, name, now))

ComposerPackagesRoute ==
    \E token \in ArchiveTokens, health \in Health :
       Route("composerPackages", token, <<>>, <<>>, health,
             ComposerGetPackageInfoList(clientCache, archiveCache, token, health, now))

Respond ==
    /\ last # NoRequest
    /\ last' = NoRequest
    /\ UNCHANGED <<client, cacheVars>>

\* between two requests either LRU drops an entry under pressure
LruEvictBetween ==
    /\ last = NoRequest
    /\ \/ /\ \E k \in DOMAIN clientCache : clientCache' = CacheRemove(clientCache, k)
          /\ UNCHANGED archiveCache
       \/ /\ \E k \in DOMAIN archiveCache : archiveCache' = CacheRemove(archiveCache, k)
          /\ UNCHANGED clientCache
    /\ UNCHANGED <<client, last, now, conns>>

NextArchive ==
    \/ NpmArchiveRoute
    \/ ComposerArchiveRoute
    \/ NpmPackageInfoRoute
    \/ ComposerPackagesRoute
    \/ Respond
    \/ LruEvictBetween

SpecArchive == InitArchive /\ [][NextArchive]_vars

\* the three parts of a cache key <form>_<id>_<ref>
KeyParts(k) == SplitN(k, "_", 3)

RefKeyForms == {<<"archive">>, <<"json">>, <<KindNpm>>, <<KindComposer>>}

\* C1: whatever was requested, neither cache holds an entry keyed on ref
\* master: no archive_<uuid>_master, json_<id>_master or <kind>_<uuid>_master.
C1_MasterNeverCached ==
    \A k \in DOMAIN clientCache \cup DOMAIN archiveCache :
       KeyParts(k)[1] \in RefKeyForms => KeyParts(k)[3] # Master

\* an archive at master has just been served while both caches hold
\* entries of other refs, one of a ref whose name ends in _master
C1_Witness ==
    /\ last.op \in {"npmArchive", "composerArchive"}
    /\ last.ref = Master
    /\ last.status = 200
    /\ CacheHas(archiveCache, archiveKey(U1, DevMaster))
    /\ CacheHas(clientCache, Join(<<<<KindNpm>>, U1, DevMaster>>))
    /\ \E k \in DOMAIN clientCache : KeyParts(k)[1] = <<"json">>

\* the projects the catalogue binds to a uuid
ProjectBoundTo(uuid) ==
    {pj.id : pj \in {pj \in {PJ0, PJ1, PJ2} :
        \E i \in 1..Len(CatalogueDoc) :
           /\ GetString(CatalogueDoc[i], "uuid") = uuid
           /\ GetString(CatalogueDoc[i], RepoListJsonNamespace)
                 \in {pj.http_url_to_repo, pj.ssh_url_to_repo}}}

\* C2: an archive request is answered with archive bytes only if the
\* project bound to the uuid is visible to the requesting token.
C2_ArchiveOnlyIfVisible ==
    (last.op \in {"npmArchive", "composerArchive"} /\ last.val # Nil)
       => \E pid \in ProjectBoundTo(last.uuid) : Visible(last.token, pid)

\* the manifest at master of the one npm repository of the catalogue
NpmMasterManifest == JsonUnmarshal(FileOfProject(PJ1.id), FALSE).doc

\* C11: in every document NpmRegistry.GetPackageInfo returns the keys of
\* dist-tags are the keys of versions and each dist-tag maps a version
\* string to itself; license is "proprietary", private is true, name and
\* description are those of the master manifest of the repository.
C11_PackageDocumentBase ==
    (last.op = "npmPackageInfo" /\ last.val # Nil) =>
       /\ DOMAIN last.val[1].DistTags = DOMAIN last.val[1].Versions
       /\ \A n \in DOMAIN last.val[1].DistTags :
             /\ last.val[1].DistTags[n] = n
             /\ last.val[1].Versions[n].Version = n
       /\ last.val[1].License = <<"proprietary">>
       /\ last.val[1].Private = TRUE
       /\ last.val[1].Name = NpmMasterManifest.name.s
       /\ last.val[1].Description = NpmMasterManifest.description.s

\* a document with a version in it has been returned
C11_Witness ==
    /\ last.op = "npmPackageInfo"
    /\ last.status = 200
    /\ last.val # Nil
    /\ DOMAIN last.val[1].Versions # {}
    /\ last.val[1].Name = NpmName

\* the package document the npm document route would hand out now
PublishedNow ==
    NpmGetPackageInfo(clientCache, archiveCache, "tA", "up", NpmName, now).val

\* C12: the dist.shasum of a version record is the SHA-1 of the bytes the
\* npm archive endpoint serves for the uuid and ref of the record's tarball
\* url, be the archive served from the cache or after a miss.
C12_ShasumOfServedArchive ==
    (last.op = "npmArchive" /\ last.status = 200) =>
       \A doc \in {PublishedNow[i] : i \in DOMAIN PublishedNow} :
          \A n \in DOMAIN doc.Versions :
             doc.Versions[n].Tarball = DownloadURL(NpmEndpoint, last.uuid, last.ref)
                => doc.Versions[n].Sha = Sha1(last.val[1])

\* C13: an archive served at a ref other than master is what the same
\* request, repeated at once, is answered with.
C13_SecondGetSameBytes ==
    /\ (last.op = "npmArchive" /\ last.status = 200 /\ last.ref # Master) =>
          NpmGetPackageArchive(clientCache, archiveCache, last.token, last.health,
                               last.uuid, last.ref, now).val = last.val
    /\ (last.op = "composerArchive" /\ last.status = 200 /\ last.ref # Master) =>
          ComposerGetPackageArchive(clientCache, archiveCache, last.token, last.health,
                                    last.uuid, last.ref, now).val = last.val

(***************************************************************************)
(* The project of a package name.  The upstream holds a list of npm        *)
(* package repositories; every GetRepoList of a request reads the upstream *)
(* anew (tag lists and master manifests are never cached) and so either    *)
(* gives the list or fails, each call on its own.                          *)
(***************************************************************************)
ManifestNames == {NpmName, <<"lib">>, <<"@other", "/", "lib">>}

\* the manifests at master: one of each name and one with no name in it
Manifests ==
    {[name |-> JStr(n), description |-> JStr(NpmDescription)] : n \in ManifestNames}
    \cup {[description |-> JStr(NpmDescription)]}

MaxRepos == 2

\* the repository at position i has the uuid u<i>
RepoLists ==
    {[i \in 1..Len(q) |->
         [Project |-> DecodeProject(PJ1), UUID |-> <<"u", Itoa(i)>>, TagList |-> <<>>,
          Metadata |-> q[i]]] : q \in SeqsUpTo(Manifests, MaxRepos)}

LookupNames == ManifestNames \cup {<<"@acme", "/", "missing">>, <<"missing">>}

LookupCall(name, repoList, done, first, retry, err, repo) ==
    [name |-> name, repoList |-> repoList, done |-> done, first |-> first, retry |-> retry,
     err |-> err, repo |-> repo]

InitLookup ==
    /\ client = Nil
    /\ last \in {LookupCall(name, repoList, FALSE, NoErr, NoErr, NoErr, Nil) :
                    name \in LookupNames, repoList \in RepoLists}
    /\ clientCache = <<>>
    /\ archiveCache = <<>>
    /\ now = 0
    /\ conns = <<>>

\* what one GetRepoList gives: the list, or the error of an upstream call
RepoListOutcome(err, repoList) ==
    IF err = NoErr THEN RepoListResult(NoErr, <<>>, repoList)
    ELSE RepoListResult(err, <<>>, <<>>)

\* the head of GetPackageInfo over the repositories of the upstream
DoFindProject ==
    /\ ~last.done
    /\ \E first \in {NoErr, "transport"}, retry \in {NoErr, "transport"} :
          \E project \in {findProject(last.name, RepoListOutcome(first, last.repoList),
                                      RepoListOutcome(retry, last.repoList))} :
             last' = LookupCall(last.name, last.repoList, TRUE, first, retry,
                                project.err, project.repo)
    /\ UNCHANGED <<client, cacheVars>>

NextLookup == DoFindProject

SpecLookup == InitLookup /\ [][NextLookup]_vars

\* the repositories of the call whose master manifest has the string name n
NamedRepos(n) ==
    {last.repoList[i] : i \in {i \in 1..Len(last.repoList) :
        /\ ~GetStringErr(last.repoList[i].Metadata, "name")
        /\ GetString(last.repoList[i].Metadata, "name") = n}}

\* C14: GetPackageInfo selects a repository whose master manifest name is
\* the full name asked; only if there is none does it select one named as
\* the name with its scope stripped; if there is none of either and the
\* repository lists were read, it returns the "not found" error and no
\* repository.
C14_FullNameFirst ==
    last.done =>
       /\ (NamedRepos(last.name) # {} /\ last.repo # Nil)
             => last.repo[1] \in NamedRepos(last.name)
       /\ (NamedRepos(last.name) = {} /\ last.repo # Nil)
             => last.repo[1] \in NamedRepos(nameWithoutNamespace(last.name))
       /\ (/\ NamedRepos(last.name) = {}
           /\ NamedRepos(nameWithoutNamespace(last.name)) = {}
           /\ last.first = NoErr
           /\ last.retry = NoErr)
             => (last.repo = Nil /\ last.err = ErrNotFound)

\* the public host by its rule: the configured value less a trailing
\* slash, else scheme://host with http and localhost for what is absent
PublicHost(from) ==
    IF from.env # <<>>
    THEN (IF from.env[Len(from.env)] = "/" THEN SubSeq(from.env, 1, Len(from.env) - 1)
          ELSE from.env)
    ELSE (IF from.scheme = <<>> THEN <<"http">> ELSE from.scheme) \o <<"://">>
         \o (IF from.host = <<>> THEN <<"localhost">> ELSE from.host)

\* the record of packages is that of the tag: v and the version the tag
\* name normalises to, the string name of the tag's manifest, the zip url
\* of the tag's commit
IsRecordOfTag(v, tag) ==
    /\ v.Reference = tag.Reference
    /\ SemverMake(releaseName(tag.Name)).ok
    /\ v.Version = <<"v">> \o SemverString(SemverMake(releaseName(tag.Name)).v)
    /\ "name" \in DOMAIN tag.Metadata
    /\ tag.Metadata["name"].t = "string"
    /\ v.Name = tag.Metadata["name"].s
    /\ v.Tarball = PublicHost(last.from) \o <<"/", "composer", "/">> \o U2 \o <<"/">>
                   \o tag.Reference \o <<".zip">>
    /\ v.DistType = <<"zip">>

AsciiTable == {<<":", 58>>, <<"u", 117>>, <<"t", 116>>, <<"A", 65>>, <<"X", 88>>}

\* string(bytes)
StringOfBytes(b) ==
    [i \in 1..Len(b) |-> IF \E a \in AsciiTable : a[2] = b[i]
                         THEN (CHOOSE a \in AsciiTable : a[2] = b[i])[1] ELSE "?"]

BytesOfString(str) == [i \in 1..Len(str) |-> (CHOOSE a \in AsciiTable : a[1] = str[i])[2]]

\* strings.ToLower of a scheme
ToLower(word) ==
    CASE word \in {"Basic", "BASIC", "basic"} -> "basic"
      [] word \in {"Bearer", "bearer"} -> "bearer"
      [] word = "Token" -> "token"
      [] OTHER -> word

\* upRaw, _ := base64.StdEncoding.DecodeString(s): the error is dropped,
\* what is left are the bytes of the quanta decoded before it
RECURSIVE B64DecodedPrefix(_)
B64DecodedPrefix(s) ==
    IF Len(s) < 4 THEN <<>>
    ELSE IF ~B64Quantum(SubSeq(s, 1, 4), Len(s) = 4).ok THEN <<>>
    ELSE B64Quantum(SubSeq(s, 1, 4), Len(s) = 4).bytes
         \o B64DecodedPrefix(SubSeq(s, 5, Len(s)))

\* helpers.GetTokenFromRequest
GetTokenFromRequest(authHeader) ==
    LET authList == SplitN(authHeader, " ", 2)
        upList == SplitN(StringOfBytes(B64DecodedPrefix(authList[2])), ":", 2)
    IN  IF Len(authList) # 2 THEN <<>>
        ELSE IF Len(authList[1]) = 1 /\ ToLower(authList[1][1]) = "basic"
        THEN (IF Len(upList) # 2 THEN <<>> ELSE upList[2])
        ELSE IF Len(authList[1]) = 1 /\ ToLower(authList[1][1]) = "bearer"
        THEN authList[2]
        ELSE <<>>

BasicHeader(scheme, userPass) == <<scheme, " ">> \o B64Encode(BytesOfString(userPass))

\* the headers of the requests, each with the form it has
AuthHeaders ==
    {[form |-> "absent", text |-> <<>>],
     [form |-> "no pair", text |-> <<"Basic">>],
     [form |-> "no pair", text |-> B64Encode(BytesOfString(<<"u", ":", "t", "A">>))],
     [form |-> "unknown scheme", text |-> <<"Token", " ", "t", "A">>],
     [form |-> "basic without colon", text |-> BasicHeader("Basic", <<"u", "t", "A">>)],
     [form |-> "basic without colon", text |-> <<"Basic", " ", "!", "!">>],
     [form |-> "basic", text |-> BasicHeader("Basic", <<"u", ":", "t", "A">>)],
     [form |-> "basic", text |-> BasicHeader("BASIC", <<"u", ":", "t", "X">>)],
     [form |-> "basic", text |-> BasicHeader("basic", <<"u", ":">>)],
     [form |-> "bearer", text |-> <<"Bearer", " ", "t", "A">>],
     [form |-> "bearer", text |-> <<"bearer", " ", "t", "X">>]}

MalformedForms == {"absent", "no pair", "unknown scheme", "basic without colon"}

\* what the upstream answers to the probe of a version made with a token,
\* open being its answer to a probe with the empty token
AuthProbe(token, version, open) ==
    IF token = <<>> THEN open
    ELSE IF token # <<"t", "A">> THEN Resp(401, BodyEmpty)
    ELSE IF version = 4 THEN Resp(200, BodyEmpty)
    ELSE Resp(404, BodyEmpty)

WWWAuthenticate == <<"Basic realm=\"Comrade Pavlik\"">>

AuthCall(header, open4, open3, done, token, status, authenticate, handler) ==
    [header |-> header, open4 |-> open4, open3 |-> open3, done |-> done, token |-> token,
     status |-> status, authenticate |-> authenticate, handler |-> handler]

\* GitLabConnector over NewConnectionFromRequest: writeDenied, writeErr or
\* ctx.Next(), the handler answering 200
GitLabConnector(authHeader, open4, open3) ==
    LET token == GetTokenFromRequest(authHeader.text)
        conn == NewClient(AuthProbe(token, 4, open4), AuthProbe(token, 3, open3))
    IN  IF conn.err = ErrGitLabInvalidToken
        THEN AuthCall(authHeader, open4, open3, TRUE, token, 401, WWWAuthenticate, FALSE)
        ELSE IF conn.err # NoErr
        THEN AuthCall(authHeader, open4, open3, TRUE, token, 500, <<>>, FALSE)
        ELSE AuthCall(authHeader, open4, open3, TRUE, token, 200, <<>>, TRUE)

InitAuth ==
    /\ client = Nil
    /\ last \in {AuthCall(h, open4, open3, FALSE, <<>>, 0, <<>>, FALSE) :
                    h \in AuthHeaders, open4 \in ProbeAnswers, open3 \in ProbeAnswers}
    /\ clientCache = <<>>
    /\ archiveCache = <<>>
    /\ now = 0
    /\ conns = <<>>

DoRequest ==
    /\ ~last.done
    /\ last' = GitLabConnector(last.header, last.open4, last.open3)
    /\ UNCHANGED <<client, cacheVars>>

NextAuth == DoRequest

SpecAuth == InitAuth /\ [][NextAuth]_vars

\* C16: a request with no Authorization header or a malformed one (no
\* scheme and credentials pair, an unknown scheme, Basic credentials with
\* no colon) is answered 401 with the WWW-Authenticate header and reaches no
\* route handler, whatever the upstream answers to the probes made with
\* the empty token.
C16_MalformedIsDenied ==
    (last.done /\ last.header.form \in MalformedForms) =>
       /\ last.status = 401
       /\ last.authenticate = WWWAuthenticate
       /\ ~last.handler

\* the request could not be served without an upstream call that failed:
\* the upstream is lost and the handler reads it whatever the caches hold
\* (the catalogue at master for a document or an archive at master)
UpstreamCallFailed ==
    /\ last.health = "lost"
    /\ last.op \in {"npmPackageInfo", "composerPackages"} \/ last.ref = Master

\* C17: on every route the bad-credential error of the probe gives 401 and
\* every other error 500 with the error message as the plain-text body: no
\* error gives 200.
C17_ErrorStatus ==
    last # NoRequest =>
       /\ NewConnectionFromRequest(last.token).err = ErrGitLabInvalidToken
             => last.status = 401
       /\ (NewConnectionFromRequest(last.token).err = NoErr /\ UpstreamCallFailed)
             => (last.status = 500 /\ last.text # NoErr)
       /\ last.status = 200 => last.text = NoErr
       /\ last.status \in {200, 401, 500}

(***************************************************************************)
(* Two repacks of one archive for one (uuid, ref), each a process with its *)
(* own scratch name, stepping in any order while the clock goes on.        *)
(***************************************************************************)
RepackJob(src, fmt, repoUUID, repoRef) ==
    [src |-> src, fmt |-> fmt, uuid |-> repoUUID, ref |-> repoRef]

\* scratch: the files and directories the run has made under os.TempDir()
\* and not removed
RepackRun(pc, u, at, tree, out, err, scratch) ==
    [pc |-> pc, u |-> u, at |-> at, tree |-> tree, out |-> out, err |-> err,
     scratch |-> scratch]

\* the returns after unTar and before os.RemoveAll(tarBeforeRenameDir)
\* remove nothing: the directory dir_<u> stays
ScratchLeft(u) == {ScratchDir(u)}

\* what the upstream may hand out as an archive: archives of two projects,
\* a page that is no gzip, archives with no and with two top-level entries
RepackSources ==
    {Body("bytes", ArchiveBytes(PJ1.id, C1Ref)), Body("bytes", ArchiveBytes(PJ2.id, DevMaster)),
     BodyHtml,
     Body("bytes", [ArchiveBytes(PJ1.id, C1Ref) EXCEPT !.tops = 0]),
     Body("bytes", [ArchiveBytes(PJ1.id, C1Ref) EXCEPT !.tops = 2])}

InitRepack ==
    /\ client = Nil
    /\ last \in {RepackJob(src, fmt, target[1], target[2]) :
                    src \in RepackSources, fmt \in {"tgz", "zip"},
                    target \in {<<U1, C1Ref>>, <<U2, Master>>}}
    /\ clientCache = <<>>
    /\ archiveCache = <<>>
    /\ now = 0
    /\ conns \in {<<RepackRun("idle", u[1], 0, Nil, Nil, NoErr, {}),
                    RepackRun("idle", u[2], 0, Nil, Nil, NoErr, {})>> :
                     u \in {w \in ScratchNames \X ScratchNames : w[1] # w[2]}}

\* unGzip (gzip.NewReader fails before the .tar file is made), the .tar
\* file read and removed, unTar into the scratch directory
Extract(p) ==
    /\ conns[p].pc = "idle"
    /\ conns' = [conns EXCEPT ![p] =
          IF unGzip(last.src).err # NoErr
          THEN RepackRun("failed", conns[p].u, now, Nil, Nil, unGzip(last.src).err, {})
          ELSE RepackRun("extracted", conns[p].u, now,
                         Some(unTar(unGzip(last.src).val[1], ScratchDir(conns[p].u), now)),
                         Nil, NoErr, {ScratchDir(conns[p].u)})]
    /\ UNCHANGED <<client, last, clientCache, archiveCache, now>>

RenameTop(p) ==
    /\ conns[p].pc = "extracted"
    /\ conns' = [conns EXCEPT ![p] =
          IF renameTop(conns[p].tree[1], last.uuid, last.ref).err # NoErr
          THEN RepackRun("failed", conns[p].u, conns[p].at, Nil, Nil,
                         renameTop(conns[p].tree[1], last.uuid, last.ref).err,
                         ScratchLeft(conns[p].u))
          ELSE RepackRun("renamed", conns[p].u, conns[p].at,
                         renameTop(conns[p].tree[1], last.uuid, last.ref).val, Nil, NoErr,
                         conns[p].scratch)]
    /\ UNCHANGED <<client, last, clientCache, archiveCache, now>>

\* makeTar and makeGzip, or makeZip; os.RemoveAll(tarBeforeRenameDir), and
\* the .tar, .tgz or .zip file removed once read
Pack(p) ==
    /\ conns[p].pc = "renamed"
    /\ conns' = [conns EXCEPT ![p] =
          RepackRun("done", conns[p].u, conns[p].at, Nil,
                    Some(Body("bytes", pack(conns[p].tree[1], last.fmt))), NoErr, {})]
    /\ UNCHANGED <<client, last, clientCache, archiveCache, now>>

RepackTick ==
    /\ now < MaxRepackTime
    /\ now' = now + 1
    /\ UNCHANGED <<client, last, clientCache, archiveCache, conns>>

NextRepack ==
    \/ \E p \in 1..2 : Extract(p)
    \/ \E p \in 1..2 : RenameTop(p)
    \/ \E p \in 1..2 : Pack(p)
    \/ RepackTick

SpecRepack == InitRepack /\ [][NextRepack]_vars

\* C18: two repacks of one archive for one (uuid, ref), one after the
\* other or side by side, each under its own scratch name, give the same
\* bytes and the same SHA-1, and the one top-level directory of the
\* output is <uuid>-<ref>.
C18_RepackDeterministic ==
    \A p \in 1..2 : \A q \in 1..2 :
       (conns[p].pc = "done" /\ conns[q].pc = "done") =>
          /\ conns[p].out = conns[q].out
          /\ Sha1(conns[p].out[1]) = Sha1(conns[q].out[1])
          /\ conns[p].out[1].v.tops = 1
          /\ conns[p].out[1].v.root = last.uuid \o <<"-">> \o last.ref

\* both repacks are done, under two scratch names, the trees extracted at
\* two times
C18_Witness ==
    /\ conns[1].pc = "done"
    /\ conns[2].pc = "done"
    /\ conns[1].u # conns[2].u
    /\ conns[1].at # conns[2].at
    /\ conns[1].out # Nil

(***************************************************************************)
(* GetRepo and GetRepoList called again and again while the upstream gets  *)
(* a tag and the clock goes on.                                            *)
(***************************************************************************)
TagHealth == {"up", "tagged"}

TagCall(op, kind, uuid, health, err, repos, before) ==
    [op |-> op, kind |-> kind, uuid |-> uuid, health |-> health,
     err |-> err, repos |-> repos, before |-> before]

\* the names and commits of a tag list, whatever its order
TagsOf(tagList) == {<<tagList[i].Name, tagList[i].Reference>> : i \in 1..Len(tagList)}

\* the tags a call has found for the repository with the uuid
TagsFound(repos, uuid) ==
    UNION {TagsOf(repos[i].TagList) : i \in {j \in 1..Len(repos) : repos[j].UUID = uuid}}

\* what a later call remembers of the call before it
Earlier(call) ==
    [op |-> call.op, health |-> call.health, tagsOfU1 |-> TagsFound(call.repos, U1)]

NoTagCall == TagCall("none", "", <<>>, "up", NoErr, <<>>, [op |-> "none"])

InitTags ==
    /\ client = Nil
    /\ last = NoTagCall
    /\ clientCache = <<>>
    /\ archiveCache = <<>>
    /\ now = 0
    /\ conns = <<>>

\* the call returns: what it built, and the cache as it leaves it
TagReturn(op, kind, uuid, health, err, repos, cc) ==
    /\ last' = TagCall(op, kind, uuid, health, err, repos, Earlier(last))
    /\ clientCache' = cc
    /\ UNCHANGED <<client, archiveCache, now, conns>>

GotRepo(got) == <<got.err, got.repo, got.cc>>

GotRepoList(got) == <<got.err, got.list, got.cc>>

DoGetRepo ==
    \E kind \in {KindNpm, KindComposer}, uuid \in RequestUuids, health \in TagHealth :
       \E got \in {GotRepo(GetRepo(clientCache, "tA", health, kind, uuid, now))} :
          TagReturn("GetRepo", kind, uuid, health, got[1], got[2], got[3])

DoGetRepoList ==
    \E kind \in {KindNpm, KindComposer}, health \in TagHealth :
       \E got \in {GotRepoList(GetRepoList(clientCache, "tA", health, kind, now))} :
          TagReturn("GetRepoList", kind, <<>>, health, got[1], got[2], got[3])

NextTags == DoGetRepo \/ DoGetRepoList \/ Tick

SpecTags == InitTags /\ [][NextTags]_vars

UpstreamTagsOf(health, pid) ==
    {<<UpstreamTags(health, pid)[i].name, UpstreamTags(health, pid)[i].commit>> :
        i \in 1..Len(UpstreamTags(health, pid))}

\* C19: every repository that GetRepo or GetRepoList builds has the tags
\* the upstream has at the time of the call, whatever was fetched before
\* and however recently, and the cache never holds a tag list.
C19_TagListAlwaysFresh ==
    /\ (last.op # "none" /\ last.err = NoErr) =>
          \A i \in 1..Len(last.repos) :
             TagsOf(last.repos[i].TagList)
                = UpstreamTagsOf(last.health, last.repos[i].Project.ID)
    /\ \A k \in DOMAIN clientCache : k[1] # "tags"

\* a call that built the repository U1 before the tag was pushed, and the
\* next call, with the project list still cached, that has the new tag
C19_Witness ==
    /\ last.op \in {"GetRepo", "GetRepoList"}
    /\ last.err = NoErr
    /\ last.health = "tagged"
    /\ last.before.op \in {"GetRepo", "GetRepoList"}
    /\ last.before.health = "up"
    /\ last.before.tagsOfU1 = {<<V100, C1Ref>>}
    /\ TagsFound(last.repos, U1) = {<<V110, C3Ref>>, <<V100, C1Ref>>}
    /\ DOMAIN clientCache # {}

\* the archive outcomes of the tags under which fillVersions can give the
\* versions: what the upstream served while the document was built
ArchiveOutcomes(tagList) ==
    {[i \in 1..Len(tagList) |-> IF i \in failed THEN ArchiveFailed ELSE ArchiveGot] :
        failed \in SUBSET (1..Len(tagList))}

\* the documents a GET of the view of last can give when the upstream
\* serves the archives as in outcomes, one for each order in which the tag
\* workers deliver
ViewsAgain(outcomes) ==
    IF last.op = "fillVersions"
    THEN fillVersions(getPackageDownloadURL(last.from.env, last.from.scheme, last.from.host,
                                            NpmDistFmt),
                      U1, last.tagList, outcomes)
    ELSE composerFillVersions(getPackageDownloadURL(last.from.env, last.from.scheme,
                                                    last.from.host, ComposerDistFmt),
                              U2, last.tagList)

\* C20: a second GET of the same package document or aggregate, the
\* upstream being as it was for the first, gives the versions the first
\* gave, in whatever order the tag workers deliver.
C20_ViewIdempotent ==
    last.done =>
       \A outcomes \in ArchiveOutcomes(last.tagList) :
          last.versions \in ViewsAgain(outcomes) => ViewsAgain(outcomes) = {last.versions}

(***************************************************************************)
(* The cache page: POST / with action clear_cache or update_cache, while   *)
(* another request clears a cache, package documents are served and the    *)
(* clock goes on.  update_cache answers at once and leaves                 *)
(* fetchProjectList running as a goroutine of the connection.              *)
(***************************************************************************)
AdminTokens == {"tA", "tB", "bad"}

AdminOps == {"ClearCachedList", "EnqueueProjectCache"}

\* GET of a package document by a request of its own: it caches the
\* project list, the manifests of the tags and the archives
ServePackageInfo ==
    \E served \in {NpmGetPackageInfo(clientCache, archiveCache, "tA", "up", NpmName, now)} :
       /\ clientCache' = served.cc
       /\ archiveCache' = served.ac
       /\ UNCHANGED <<clientVars, now, conns>>

NextAdmin ==
    \/ \E token \in AdminTokens, op \in AdminOps : Connect(1, token, op)
    \/ \E token \in {"tA", "tB"} : Connect(2, token, "ClearCachedList")
    \/ \E r \in Slots : fetchProjectListLookup(r)
    \/ \E r \in Slots : fetchProjectListFetch(r)
    \/ \E r \in Slots : ClearCachedList(r)
    \/ \E r \in Slots : Release(r)
    \/ ServePackageInfo
    \/ Tick

SpecAdmin == InitList /\ [][NextAdmin]_vars

\* the entries of a cache other than the one under the key
OtherEntries(cc, key) == [k \in DOMAIN cc \ {key} |-> cc[k]]

\* the handler of the request r runs ClearCachedList in this step
ClearStep(r) ==
    /\ conns[r].pc = "handler"
    /\ conns[r].op = "ClearCachedList"
    /\ conns'[r].pc = "done"

\* C21: the step of POST / with clear_cache leaves the cache without the
\* entry project_list_<token> of the caller and with every other entry
\* (the lists of other tokens, the metadata files, the archives) as it
\* was; a request the connector refuses never gets to the handler.
C21_ClearCacheFrame ==
    [][\A r \in Slots :
          /\ ClearStep(r) =>
                /\ conns'[r].status = 302
                /\ ~CacheHas(clientCache', <<"project", "_", "list", "_", conns[r].token>>)
                /\ OtherEntries(clientCache', <<"project", "_", "list", "_", conns[r].token>>)
                      = OtherEntries(clientCache, <<"project", "_", "list", "_", conns[r].token>>)
                /\ archiveCache' = archiveCache
          /\ (conns[r].pc = "idle" /\ conns'[r].op = "ClearCachedList") =>
                /\ clientCache' = clientCache
                /\ archiveCache' = archiveCache
                /\ conns'[r].pc = "done" <=> conns'[r].token = "bad"]_vars

\* tA has cleared its list before anything expired: the archives and
\* manifests its package document cached and the list of tB are still there
C21_Witness ==
    \E r \in Slots :
       /\ conns[r].pc = "done"
       /\ conns[r].op = "ClearCachedList"
       /\ conns[r].token = "tA"
       /\ conns[r].status = 302
       /\ now = 0
       /\ archiveCache # <<>>
       /\ ~CacheHas(clientCache, getProjectListCacheKey("tA"))
       /\ CacheHas(clientCache, getProjectListCacheKey("tB"))
       /\ \E k \in DOMAIN clientCache : clientCache[k].type = "bytes"

\* the Go scheduler runs the goroutine of EnqueueProjectCache to its end
SpecAdminLive ==
    /\ SpecAdmin
    /\ \A r \in Slots : WF_vars(fetchProjectListLookup(r))
    /\ \A r \in Slots : WF_vars(fetchProjectListFetch(r))

\* the entry project_list_<token> is in the cache and not expired
HasUnexpiredList(token) ==
    /\ CacheHas(clientCache, getProjectListCacheKey(token))
    /\ clientCache[getProjectListCacheKey(token)].type = "cachedProjectList"
    /\ now <= clientCache[getProjectListCacheKey(token)].Expire

\* the request r is POST / with update_cache and its goroutine is running
Enqueued(r) ==
    /\ conns[r].op = "EnqueueProjectCache"
    /\ conns[r].pc \in {"lookup", "fetch"}

\* C22: POST / with update_cache is answered 302 when the goroutine has
\* not yet looked at the cache; the goroutine ends without the upstream
\* fetch if the list of the token is cached and unexpired, else it goes
\* to the upstream and on success leaves the entry of the token in the
\* cache, expiring 30 minutes after; and the goroutine does end.
C22_UpdateCache ==
    /\ [][\A r \in Slots :
             /\ (conns[r].pc = "idle" /\ conns'[r].op = "EnqueueProjectCache"
                 /\ conns'[r].token # "bad") =>
                   /\ conns'[r].status = 302
                   /\ conns'[r].pc = "lookup"
                   /\ clientCache' = clientCache
             /\ (Enqueued(r) /\ conns[r].pc = "lookup" /\ conns'[r].pc # "lookup") =>
                   IF HasUnexpiredList(conns[r].token)
                   THEN conns'[r].pc = "done" /\ clientCache' = clientCache
                   ELSE conns'[r].pc = "fetch"
             /\ (Enqueued(r) /\ conns[r].pc = "fetch" /\ conns'[r].pc = "done"
                 /\ conns'[r].listSource = "upstream") =>
                   /\ CacheHas(clientCache', <<"project", "_", "list", "_", conns[r].token>>)
                   /\ clientCache'[<<"project", "_", "list", "_", conns[r].token>>].Expire
                         = now + 30
                   /\ Some(clientCache'[<<"project", "_", "list", "_",
                                          conns[r].token>>].ProjectList)
                         = conns'[r].visibleProjectList
             /\ conns[r].op = "EnqueueProjectCache" => conns'[r].status = conns[r].status
                                                       \/ conns'[r].pc = "idle"]_vars
    /\ \A r \in Slots : Enqueued(r) ~> (conns[r].pc = "done")

\* the redirect was sent, the goroutine found the list of tA expired,
\* fetched it and left it in the cache with its 30 minutes
C22_Witness ==
    /\ conns[1].op = "EnqueueProjectCache"
    /\ conns[1].token = "tA"
    /\ conns[1].status = 302
    /\ conns[1].pc = "done"
    /\ conns[1].lookup.kind = "expired"
    /\ conns[1].listSource = "upstream"
    /\ CacheHas(clientCache, getProjectListCacheKey("tA"))
    /\ clientCache[getProjectListCacheKey("tA")].Expire = now + TTL

\* the bodies of a paginated list in page order: the first response, then
\* the pages from the next page to the total
BodiesInPageOrder(a1, pg) ==
    <<a1.body>> \o [k \in 1..(Atoi(a1.total).n - Atoi(a1.next).n + 1) |->
                      pg[Atoi(a1.next).n + k - 1].body]

\* C23: a paginated GetProjectList or GetTagList that succeeds returns the
\* items of page 1, then those of page 2, and so on to the last page.
C23_PageOrder ==
    (/\ last.op \in {"GetProjectList", "GetTagList"}
     /\ last.err = NoErr
     /\ last.a1.next # "") =>
       last.val = Some(Flatten([k \in 1..Len(BodiesInPageOrder(last.a1, last.pg)) |->
                                  UnmarshalList(BodiesInPageOrder(last.a1, last.pg)[k],
                                                IF last.op = "GetTagList" THEN "Tag"
                                                ELSE "Project").v]))

\* the pages a paginated call asks for after the first response
PagesAsked(a1) == Atoi(a1.next).n..Atoi(a1.total).n

\* C24: a paginated call fails and returns nothing when any of the pages
\* it asks for meets a transport error or an error status; it succeeds
\* only with every page 1..total obtained, each asked for once; a first
\* response without X-Next-Page is returned alone, whatever the pages
\* would answer.
C24_PageFailureFailsCall ==
    (last.op \in {"GetProjectList", "GetTagList"} /\ last.a1.t = "resp") =>
       IF last.a1.next = ""
       THEN \A pg \in PagesFor(Answer("resp", 200, BodyEmpty, "2", "2")) :
               executeAPIMethod(last.a1, pg) = {ApiResult(NoErr, <<last.a1.body>>)}
       ELSE (Atoi(last.a1.next).ok /\ Atoi(last.a1.total).ok) =>
               \A res \in executeAPIMethod(last.a1, last.pg) :
                  /\ (\E i \in PagesAsked(last.a1) :
                         last.pg[i].t # "resp" \/ AnsweredWithError(last.pg[i]))
                        => (res.err # NoErr /\ res.list = <<>>)
                  /\ res.err = NoErr =>
                        /\ Len(res.list) = Atoi(last.a1.total).n
                        /\ PagesAsked(last.a1) = 2..Atoi(last.a1.total).n
                  /\ res.err # NoErr => res.list = <<>>

(***************************************************************************)
(* The URLs of the requests of GetFile.  executeHead and executeGet put    *)
(* the endpoint of the GitLab in front of the request URI, its leading     *)
(* slashes trimmed; executeAPIMethod puts the API prefix in front of the   *)
(* base URI before it calls executeGet.                                    *)
(***************************************************************************)
Endpoint == <<"http://gitlab">>

LegacyFileEndpoint == <<"projects/%d/repository/files?file_path=%s&ref=%s">>

PathFileEndpoint == <<"projects/%d/repository/files/%s?ref=%s">>

\* c.APIPrefix as a path
APIPrefixPath(c) ==
    IF c.APIPrefix = "/api/v4" THEN <<"/", "api", "/", "v4">>
    ELSE IF c.APIPrefix = "/api/v3" THEN <<"/", "api", "/", "v3">>
    ELSE <<>>

\* fmt.Sprintf("%s/%s", c.Endpoint, strings.TrimLeft(requestURI, "/"))
requestURL(requestURI) == Endpoint \o <<"/">> \o TrimLeftSlash(requestURI)

\* the URL executeAPIMethod asks for: the prefix, then the base URI
apiRequestURL(c, baseRequestURI) ==
    requestURL(APIPrefixPath(c) \o <<"/">> \o TrimLeftSlash(baseRequestURI))

\* the URL of the HEAD of GetFile, if it makes one
GetFileHeadURL(c) == IF c.HasV4Support THEN Some(requestURL(LegacyFileEndpoint)) ELSE Nil

\* the URL GetFile fetches the file from
GetFileURL(c, head) ==
    apiRequestURL(c, IF FileEndpointForm(c, head) = "path" THEN PathFileEndpoint
                     ELSE LegacyFileEndpoint)

\* C25: GetFile of a client bound to /api/v4 sends a HEAD for the legacy
\* form of the file endpoint under /api/v4, then fetches the legacy form
\* if the HEAD was answered 200 and the path form if not; a client bound
\* to /api/v3 sends no HEAD and fetches the legacy form.
C25_FileEndpointProbe ==
    last.op = "GetFile" =>
       IF client[1].APIPrefix = "/api/v4"
       THEN /\ GetFileHeadURL(client[1])
                 = Some(Endpoint \o <<"/", "api", "/", "v4", "/">> \o LegacyFileEndpoint)
            /\ GetFileURL(client[1], last.head)
                 = Endpoint \o <<"/", "api", "/", "v4", "/">>
                      \o (IF last.head.t = "resp" /\ last.head.status = 200
                          THEN LegacyFileEndpoint ELSE PathFileEndpoint)
       ELSE /\ GetFileHeadURL(client[1]) = Nil
            /\ GetFileURL(client[1], last.head)
                 = Endpoint \o <<"/", "api", "/", "v3", "/">> \o LegacyFileEndpoint

(***************************************************************************)
(* The index files of fetchSourceRepoList: repoJsonFilesList holds the     *)
(* primary file (GITLAB_REPO_FILE) first, then the extra files; each is    *)
(* read by fetchJsonFile in a goroutine of its own and the entries are     *)
(* appended as the goroutines deliver.                                     *)
(***************************************************************************)
IndexFile(err, jsonSource) == [err |-> err, jsonSource |-> jsonSource]

\* what fetchJsonFile can give for an index file: no entry, an entry of
\* either kind, both, a failed fetch, a file that is no JSON list
IndexFileOutcomes ==
    {IndexFile(NoErr, <<>>), IndexFile(NoErr, <<CatalogueDoc[1]>>),
     IndexFile(NoErr, <<CatalogueDoc[2]>>), IndexFile(NoErr, CatalogueDoc),
     IndexFile("transport error", <<>>), IndexFile("json.Unmarshal", <<>>)}

MaxFiles == 3

\* the possible values of sourceJsonData
readIndexFiles(files) ==
    {Flatten([k \in 1..Len(order) |-> files[order[k]].jsonSource]) :
        order \in Perms({i \in 1..Len(files) : files[i].err = NoErr})}

\* the error fetchSourceRepoList returns: return nil
fetchSourceRepoListErr(files) == NoErr

IndexCall(kind, files, done, err, data, list) ==
    [kind |-> kind, files |-> files, done |-> done, err |-> err,
     sourceJsonData |-> data, containerRepoList |-> list]

InitIndex ==
    /\ client = Nil
    /\ last \in {IndexCall(kind, files, FALSE, NoErr, <<>>, <<>>) :
                    kind \in {KindNpm, KindComposer},
                    files \in SeqsUpTo(IndexFileOutcomes, MaxFiles) \ {<<>>}}
    /\ clientCache = <<>>
    /\ archiveCache = <<>>
    /\ now = 0
    /\ conns = <<>>

DoReadIndexFiles ==
    /\ ~last.done
    /\ \E data \in readIndexFiles(last.files) :
          \E list \in fetchSourceRepoList(data, last.kind) :
             last' = IndexCall(last.kind, last.files, TRUE, fetchSourceRepoListErr(last.files),
                               data, list)
    /\ UNCHANGED <<client, cacheVars>>

NextIndex == DoReadIndexFiles

SpecIndex == InitIndex /\ [][NextIndex]_vars

\* the entries of a sequence, as a bag of the positions they came from
EntriesOf(files, which) ==
    {<<i, j>> : i \in which, j \in 1..MaxEntries} \cap
    {<<i, j>> \in (1..Len(files)) \X (1..MaxEntries) : j <= Len(files[i].jsonSource)}

\* C26: the bootstrap fails when the primary index file cannot be fetched
\* or decoded; when it can, the bootstrap succeeds whatever happens to the
\* extra files, and the entries of every file that was read are used.
C26_PrimaryIndexRequired ==
    last.done =>
       IF last.files[1].err # NoErr
       THEN last.err # NoErr
       ELSE /\ last.err = NoErr
            /\ Len(last.sourceJsonData)
                  = Cardinality(EntriesOf(last.files,
                                          {i \in 1..Len(last.files) : last.files[i].err = NoErr}))
            /\ \A i \in 1..Len(last.files) : last.files[i].err = NoErr =>
                  \A j \in 1..Len(last.files[i].jsonSource) :
                     \E k \in 1..Len(last.sourceJsonData) :
                        last.sourceJsonData[k] = last.files[i].jsonSource[j]

(***************************************************************************)
(* fetchBasicData called again and again by callers that see the project   *)
(* of the catalogue and by one that does not, with the upstream up or      *)
(* lost, while the clock goes on and the cached lists expire.              *)
(***************************************************************************)
BootTokens == {"tA", "tB", "tC"}

BootCall(op, token, kind, health, cached, err, visible, list, indexFiles) ==
    [op |-> op, token |-> token, kind |-> kind, health |-> health, cached |-> cached,
     err |-> err, visibleProjectList |-> visible, packageRepoList |-> list,
     indexFiles |-> indexFiles]

NoBootCall == BootCall("none", "", "", "up", FALSE, NoErr, <<>>, <<>>, <<>>)

InitBoot ==
    /\ client = Nil
    /\ last = NoBootCall
    /\ clientCache = <<>>
    /\ archiveCache = <<>>
    /\ now = 0
    /\ conns = <<>>

\* the list fetchProjectList serves from the cache at the time t, if it does
ServedFromCache(cc, token, t) ==
    /\ CacheHas(cc, getProjectListCacheKey(token))
    /\ cc[getProjectListCacheKey(token)].type = "cachedProjectList"
    /\ ~Expired(cc[getProjectListCacheKey(token)].Expire, t)

DoFetchBasicData ==
    \E token \in BootTokens, health \in {"up", "lost"}, kind \in {KindNpm, KindComposer} :
       \E basic \in {fetchBasicData(clientCache, token, health, kind, now)},
          pl \in {fetchProjectList(clientCache, token, health, now)} :
          /\ last' = BootCall("fetchBasicData", token, kind, health,
                              ServedFromCache(clientCache, token, now),
                              basic.err, pl.visibleProjectList, basic.packageRepoList,
                              basic.indexFiles)
          /\ clientCache' = basic.cc
          /\ UNCHANGED <<client, archiveCache, now, conns>>

\* POST / with action=clear_cache between two bootstraps
BootClearCachedList ==
    \E token \in BootTokens :
       /\ CacheHas(clientCache, getProjectListCacheKey(token))
       /\ clientCache' = ClearedList(clientCache, token)
       /\ last' = BootCall("ClearCachedList", token, "", "up", FALSE, NoErr, <<>>, <<>>, <<>>)
       /\ UNCHANGED <<client, archiveCache, now, conns>>

NextBoot == DoFetchBasicData \/ BootClearCachedList \/ Tick

SpecBoot == InitBoot /\ [][NextBoot]_vars

\* no project of the list has the configured namespace path
NoContainerIn(list) ==
    \A i \in 1..Len(list) : list[i].PathWithNamespace # RepoPathWithNamespace

\* C27: a bootstrap whose project list, fetched or served from the cache,
\* has no project with the configured namespace path fails with the
\* not-found error, asks for no index file and gives no package repository.
C27_NoContainerFails ==
    (/\ last.op = "fetchBasicData"
     /\ last.cached \/ last.health # "lost"
     /\ NoContainerIn(last.visibleProjectList)) =>
       /\ last.err = "Project with namespace not found"
       /\ last.indexFiles = <<>>
       /\ last.packageRepoList = <<>>

\* the caller tC, who sees one project and not the catalogue's, served
\* from the list cached by an earlier call while the upstream is lost
C27_Witness ==
    /\ last.op = "fetchBasicData"
    /\ last.token = "tC"
    /\ last.cached
    /\ last.health = "lost"
    /\ Len(last.visibleProjectList) = 1
    /\ NoContainerIn(last.visibleProjectList)
    /\ last.err = "Project with namespace not found"
    /\ last.indexFiles = <<>>

(***************************************************************************)
(* filterProjectList over the catalogues and the project lists a caller    *)
(* who sees the catalogue's project can have; the bound entries reach      *)
(* packageRepoList in the order the goroutines deliver them.               *)
(***************************************************************************)
\* the project lists: the catalogue's project and any of the other two
VisibleLists ==
    {SelectSeq(fetchProjectList(<<>>, "tA", "up", 0).visibleProjectList,
               LAMBDA project : project.ID = PJ0.id \/ project.ID \in others) :
        others \in SUBSET {PJ1.id, PJ2.id}}

\* the error filterProjectList returns: return nil
filterProjectListErr(containerRepoList, visibleProjectList) == NoErr

BindCall(kind, data, visible, done, err, containerRepoList, packageRepoList) ==
    [kind |-> kind, sourceJsonData |-> data, visibleProjectList |-> visible, done |-> done,
     err |-> err, containerRepoList |-> containerRepoList,
     packageRepoList |-> packageRepoList]

InitBind ==
    /\ client = Nil
    /\ last \in {BindCall(kind, data, visible, FALSE, NoErr, <<>>, <<>>) :
                    kind \in {KindNpm, KindComposer}, data \in Catalogues,
                    visible \in VisibleLists}
    /\ clientCache = <<>>
    /\ archiveCache = <<>>
    /\ now = 0
    /\ conns = <<>>

DoFilterProjectList ==
    /\ ~last.done
    /\ \E containerRepoList \in fetchSourceRepoList(last.sourceJsonData, last.kind) :
          \E bound \in {filterProjectList(containerRepoList, last.visibleProjectList)} :
             \E order \in Perms(1..Len(bound)) :
                last' = BindCall(last.kind, last.sourceJsonData, last.visibleProjectList, TRUE,
                                 filterProjectListErr(containerRepoList,
                                                      last.visibleProjectList),
                                 containerRepoList,
                                 [k \in 1..Len(bound) |-> bound[order[k]]])
    /\ UNCHANGED <<client, cacheVars>>

NextBind == DoFilterProjectList

SpecBind == InitBind /\ [][NextBind]_vars

\* the project is one whose http or ssh url is the clone url of the entry
BindsTo(item, project) == project.HTTPURL = item.GitURL \/ project.SSHURL = item.GitURL

HasProjectIn(item, list) == \E i \in 1..Len(list) : BindsTo(item, list[i])

\* the entry of the catalogue a package repository was made of
EntryOfRepo(repo) == ContainerItem(repo.GitURL, repo.UUID, repo.LabelList)

\* C28: after the binding every package repository has a project of the
\* visible list whose http or ssh url is its clone url; the call does not
\* fail; an entry of the kind with no such project is not in the list and
\* one with such a project is there as often as it is in the catalogue.
C28_BoundToVisibleProject ==
    last.done =>
       /\ last.err = NoErr
       /\ \A k \in 1..Len(last.packageRepoList) :
             /\ \E i \in 1..Len(last.visibleProjectList) :
                   last.packageRepoList[k].Project = last.visibleProjectList[i]
             /\ BindsTo(last.packageRepoList[k], last.packageRepoList[k].Project)
       /\ \A i \in 1..Len(last.containerRepoList) :
             Cardinality({k \in 1..Len(last.packageRepoList) :
                             EntryOfRepo(last.packageRepoList[k]) = last.containerRepoList[i]})
                = IF HasProjectIn(last.containerRepoList[i], last.visibleProjectList)
                  THEN Cardinality({j \in 1..Len(last.containerRepoList) :
                                       last.containerRepoList[j] = last.containerRepoList[i]})
                  ELSE 0

\* a catalogue of two entries of the kind, one bound by the ssh url of a
\* visible project and one whose project the caller does not see
C28_Witness ==
    /\ last.done
    /\ last.err = NoErr
    /\ Len(last.containerRepoList) = 2
    /\ Len(last.packageRepoList) = 1
    /\ last.packageRepoList[1].Project.ID = PJ2.id
    /\ last.packageRepoList[1].Project.SSHURL = last.packageRepoList[1].GitURL
    /\ \E i \in 1..2 : ~HasProjectIn(last.containerRepoList[i], last.visibleProjectList)

(***************************************************************************)
(* GetRepo and the two archive endpoints, called by tA again and again     *)
(* while the upstream answers everything or fails one kind of call.        *)
(***************************************************************************)
BuildHealth == {"up"} \cup Faults

ArchiveHealth == {"up", "archiveLost", "archiveGone"}

BuildRefs == {C1Ref, Master}

\* the cache keys a call reads: the metadata file of a tag, the archive as
\* the upstream gave it and the repacked archive
BuildKeys(kind, uuid, ref) ==
    {Join(<<<<"json">>, FormatUint(PJ1.id), C1Ref>>), Join(<<<<kind>>, uuid, ref>>),
     archiveKey(uuid, ref)}

\* cached: the keys the call reads that were in the two caches when it came
BuildCall(op, kind, uuid, ref, health, cached, err, repos) ==
    [op |-> op, kind |-> kind, uuid |-> uuid, ref |-> ref, health |-> health,
     cached |-> cached, err |-> err, repos |-> repos]

NoBuildCall == BuildCall("none", "", <<>>, <<>>, "up", {}, NoErr, <<>>)

InitBuild ==
    /\ client = Nil
    /\ last = NoBuildCall
    /\ clientCache = <<>>
    /\ archiveCache = <<>>
    /\ now = 0
    /\ conns = <<>>

BuildReturn(op, kind, uuid, ref, health, err, repos, cc, ac) ==
    /\ last' = BuildCall(op, kind, uuid, ref, health,
                         (DOMAIN clientCache \cup DOMAIN archiveCache)
                            \cap BuildKeys(kind, uuid, ref), err, repos)
    /\ clientCache' = cc
    /\ archiveCache' = ac
    /\ UNCHANGED <<client, now, conns>>

BuildGetRepo ==
    \E kind \in {KindNpm, KindComposer}, uuid \in RequestUuids, health \in BuildHealth :
       \E got \in {GotRepo(GetRepo(clientCache, "tA", health, kind, uuid, now))} :
          BuildReturn("GetRepo", kind, uuid, <<>>, health, got[1], got[2], got[3],
                      archiveCache)

BuildNpmArchive ==
    \E uuid \in RequestUuids, ref \in BuildRefs, health \in ArchiveHealth :
       \E served \in {NpmGetPackageArchive(clientCache, archiveCache, "tA", health,
                                           uuid, ref, now)} :
          BuildReturn("NpmGetPackageArchive", KindNpm, uuid, ref, health, served.err, <<>>,
                      served.cc, served.ac)

BuildComposerArchive ==
    \E uuid \in RequestUuids, ref \in BuildRefs, health \in ArchiveHealth :
       \E served \in {ComposerGetPackageArchive(clientCache, archiveCache, "tA", health,
                                                uuid, ref, now)} :
          BuildReturn("ComposerGetPackageArchive", KindComposer, uuid, ref, health,
                      served.err, <<>>, served.cc, served.ac)

NextBuild == BuildGetRepo \/ BuildNpmArchive \/ BuildComposerArchive

SpecBuild == InitBuild /\ [][NextBuild]_vars

\* the project of the catalogue entry of a kind with the uuid, if there is one
ProjectOfEntry(kind, uuid) ==
    IF kind = KindNpm /\ uuid = U1 THEN Some(PJ1.id)
    ELSE IF kind = KindComposer /\ uuid = U2 THEN Some(PJ2.id)
    ELSE Nil

\* the fetch of the metadata file of a tag fails in the call last
TagFileFails(pid, tag) ==
    /\ last.health \in {"tagFileLost", "tagFileGone"}
    /\ tag[2] = C1Ref
    /\ Join(<<<<"json">>, FormatUint(pid), tag[2]>>) \notin last.cached

\* the archive of the call last is fetched from the upstream
ArchiveIsFetched ==
    /\ ProjectOfEntry(last.kind, last.uuid) # Nil
    /\ last.op = "NpmGetPackageArchive" => archiveKey(last.uuid, last.ref) \notin last.cached
    /\ Join(<<<<last.kind>>, last.uuid, last.ref>>) \notin last.cached

\* C29: a repository is built with every tag of the upstream but those
\* whose metadata file could not be fetched, and built it is although one
\* was not; it is not built when the tag list or the metadata file at
\* master cannot be fetched; an archive endpoint whose archive fetch fails
\* returns an error.
C29_FatalAndDroppedFailures ==
    /\ (last.op = "GetRepo" /\ ProjectOfEntry(last.kind, last.uuid) # Nil) =>
          LET pid == ProjectOfEntry(last.kind, last.uuid)[1]
          IN  IF last.health \in {"tagsLost", "tagsGone", "masterLost", "masterGone"}
              THEN last.err # NoErr /\ last.repos = Nil
              ELSE /\ last.err = NoErr
                   /\ Len(last.repos) = 1
                   /\ TagsOf(last.repos[1].TagList)
                         = {tag \in UpstreamTagsOf(last.health, pid) : ~TagFileFails(pid, tag)}
    /\ (/\ last.op \in {"NpmGetPackageArchive", "ComposerGetPackageArchive"}
        /\ last.health \in {"archiveLost", "archiveGone"}
        /\ ArchiveIsFetched) => last.err # NoErr

\* the package U1 built while the metadata file at the commit of one of
\* its two tags cannot be fetched and is not cached: the other tag is there
C29_Witness ==
    /\ last.op = "GetRepo"
    /\ last.uuid = U1
    /\ last.health \in {"tagFileLost", "tagFileGone"}
    /\ TagFileFails(PJ1.id, <<V100, C1Ref>>)
    /\ last.err = NoErr
    /\ TagsOf(last.repos[1].TagList) = {<<V110, C3Ref>>}

(***************************************************************************)
(* A fan-out: the caller starts one goroutine per item and then receives   *)
(* one result per item from an unbuffered channel.  Every goroutine sends  *)
(* to the buffered guard channel first (and waits while it is full), does  *)
(* its work, hands its result to the caller and, returning, takes one      *)
(* element off the guard channel (the deferred receive).  conns is the     *)
(* place of every goroutine, last the fan-out and its channels.            *)
(***************************************************************************)
FanOuts == {"pages", "indexFiles", "binding", "tagFiles", "versions", "aggregate"}

\* runtime.NumCPU() of the machines the program runs on
NumCPUs == {1, 3}

MaxWorkers == 4

\* make(chan bool, 2) and make(chan bool, runtime.NumCPU())
guardCapacity(fanOut, numCPU) ==
    IF fanOut \in {"pages", "indexFiles", "aggregate"} THEN 2 ELSE numCPU

\* a channel that takes whatever is sent
CanSendAlways(guardChan, capacity) == TRUE

\* guardChan <- true goes on when the buffer has room
CanSend(guardChan, capacity) == Len(guardChan) < capacity

\* a loop that receives one result less than there are items
ItemsAwaitedButOne(items) == items - 1

\* for i := 0; i < len(src.TagList); i++ { v := <-versionChan ... }
ItemsAwaited(items) == items

\* received: the results the caller's loop has taken; assembled: the loop is
\* over and the caller has made its result of them
FanOut(fanOut, numCPU, guardChan, received) ==
    [fanOut |-> fanOut, numCPU |-> numCPU, guardChan |-> guardChan, received |-> received,
     assembled |-> FALSE]

InitGuard ==
    /\ client = Nil
    /\ last \in {FanOut(fanOut, numCPU, <<>>, 0) : fanOut \in FanOuts, numCPU \in NumCPUs}
    /\ conns \in {[w \in 1..n |-> "start"] : n \in 1..MaxWorkers}
    /\ clientCache = <<>>
    /\ archiveCache = <<>>
    /\ now = 0

\* guardChan <- true
WorkerAcquire(w) ==
    /\ conns[w] = "start"
    /\ CanSend(last.guardChan, guardCapacity(last.fanOut, last.numCPU))
    /\ last' = [last EXCEPT !.guardChan = Append(@, TRUE)]
    /\ conns' = [conns EXCEPT ![w] = "work"]
    /\ UNCHANGED <<client, clientCache, archiveCache, now>>

\* the work is done and the result sent: the caller's loop receives it
WorkerSend(w) ==
    /\ conns[w] = "work"
    /\ last.received < ItemsAwaited(Len(conns))
    /\ last' = [last EXCEPT !.received = @ + 1]
    /\ conns' = [conns EXCEPT ![w] = "sent"]
    /\ UNCHANGED <<client, clientCache, archiveCache, now>>

\* defer func() { <-guardChan }()
WorkerRelease(w) ==
    /\ conns[w] = "sent"
    /\ Len(last.guardChan) > 0
    /\ last' = [last EXCEPT !.guardChan = Tail(@)]
    /\ conns' = [conns EXCEPT ![w] = "done"]
    /\ UNCHANGED <<client, clientCache, archiveCache, now>>

\* the caller's loop has received a result for every item: the caller goes on
Assemble ==
    /\ ~last.assembled
    /\ last.received = ItemsAwaited(Len(conns))
    /\ last' = [last EXCEPT !.assembled = TRUE]
    /\ UNCHANGED <<client, clientCache, archiveCache, now, conns>>

NextGuard ==
    \/ \E w \in DOMAIN conns : WorkerAcquire(w)
    \/ \E w \in DOMAIN conns : WorkerSend(w)
    \/ \E w \in DOMAIN conns : WorkerRelease(w)
    \/ Assemble

SpecGuard == InitGuard /\ [][NextGuard]_vars

\* the goroutines that have sent to the guard and not yet received from it
Holding == {w \in DOMAIN conns : conns[w] \in {"work", "sent"}}

\* C30: in every fan-out the goroutines that hold the guard are never more
\* than its capacity: 2 for the pages, the index files and the aggregates,
\* the number of CPUs for the binding, the tag files and the versions.
C30_GuardBound ==
    /\ last.fanOut \in {"pages", "indexFiles", "aggregate"} => Cardinality(Holding) <= 2
    /\ last.fanOut \in {"binding", "tagFiles", "versions"} =>
          Cardinality(Holding) <= last.numCPU
    /\ Cardinality(Holding) = Len(last.guardChan)

\* the pages of a list fetched by four goroutines: two hold the guard and
\* the other two wait at it
C30_Witness ==
    /\ last.fanOut = "pages"
    /\ last.numCPU = 3
    /\ Len(conns) = 4
    /\ Cardinality(Holding) = 2
    /\ Cardinality({w \in DOMAIN conns : conns[w] = "start"}) = 2

\* the scheduler runs every goroutine that can take a step
SpecGuardLive ==
    /\ SpecGuard
    /\ \A w \in 1..MaxWorkers : WF_vars(w \in DOMAIN conns /\ WorkerAcquire(w))
    /\ \A w \in 1..MaxWorkers : WF_vars(w \in DOMAIN conns /\ WorkerSend(w))
    /\ \A w \in 1..MaxWorkers : WF_vars(w \in DOMAIN conns /\ WorkerRelease(w))
    /\ WF_vars(Assemble)

\* the goroutines that have sent their result
Reported == {w \in DOMAIN conns : conns[w] \in {"sent", "done"}}

FanOutOver ==
    /\ last.assembled
    /\ \A w \in DOMAIN conns : conns[w] = "done"
    /\ last.guardChan = <<>>

\* C31: a fan-out ends, whatever the number of items and the capacity of
\* the guard: the caller has received exactly one result from every
\* goroutine, each of them has given its guard slot back, and the caller
\* makes its result only once every goroutine has reported.
C31_FanOutTerminates ==
    /\ [](last.received = Cardinality(Reported))
    /\ [](last.assembled => Reported = DOMAIN conns)
    /\ <>[]FanOutOver

\* four goroutines behind a guard of one slot, all done
C31_Witness ==
    /\ FanOutOver
    /\ guardCapacity(last.fanOut, last.numCPU) = 1
    /\ Len(conns) = MaxWorkers
    /\ last.received = MaxWorkers

(***************************************************************************)
(* ComposerRegistry.GetPackageInfoList: one goroutine per repository runs  *)
(* rootPackage.fillVersions, which takes the version list of its           *)
(* repository and puts every record into the shared map Packages, each     *)
(* under PackagesLock.  conns is the place of every goroutine, last the    *)
(* version lists, the map, the lock and the channels.                      *)
(***************************************************************************)
PkgX == <<"acme", "/", "x">>

PkgY == <<"acme", "/", "y">>

\* a record of versionListFromTags: the url of its archive names the uuid
PkgRec(name, version) == [Name |-> name, Version |-> version, uuid |-> <<>>]

\* the version lists a repository can give
VersionLists ==
    {<<>>, <<PkgRec(PkgX, V100)>>, <<PkgRec(PkgX, V100), PkgRec(PkgX, V110)>>,
     <<PkgRec(PkgX, V110), PkgRec(PkgY, V100)>>, <<PkgRec(PkgY, V200)>>}

\* the version lists of the repositories of GetRepoList, one or two
RepoVersionLists ==
    {<<l>> : l \in VersionLists} \cup {<<l, m>> : l \in VersionLists, m \in VersionLists}

\* the records of the repository at position w carry its uuid
VersionListOf(lists, w) ==
    [i \in 1..Len(lists[w]) |-> [lists[w][i] EXCEPT !.uuid = <<"u", Itoa(w)>>]]

Assembly(lists, packages, lock, guard, received) ==
    [versionLists |-> lists, Packages |-> packages, PackagesLock |-> lock,
     guardChan |-> guard, received |-> received]

Worker(pc, i, isNil) == [pc |-> pc, i |-> i, isNil |-> isNil]

InitAssemble ==
    /\ client = Nil
    /\ \E lists \in RepoVersionLists :
          /\ last = Assembly(lists, <<>>, 0, 0, 0)
          /\ conns = [w \in 1..Len(lists) |-> Worker("start", 1, FALSE)]
    /\ clientCache = <<>>
    /\ archiveCache = <<>>
    /\ now = 0

AssembleFrame == UNCHANGED <<client, clientCache, archiveCache, now>>

\* guardChan <- true, then versionListFromTags
StartFill(w) ==
    /\ conns[w].pc = "start"
    /\ last.guardChan < 2
    /\ last' = [last EXCEPT !.guardChan = @ + 1]
    /\ conns' = [conns EXCEPT ![w].pc = "lock"]
    /\ AssembleFrame

\* a lock that is given to whoever asks
LockFreeAlways(lock) == TRUE

LockFree(lock) == lock = 0

\* p.PackagesLock.Lock(), or the end of the loop: resultChan <- true
LockOrSend(w) ==
    /\ conns[w].pc = "lock"
    /\ IF conns[w].i > Len(last.versionLists[w])
       THEN /\ last' = [last EXCEPT !.received = @ + 1]
            /\ conns' = [conns EXCEPT ![w].pc = "sent"]
       ELSE /\ LockFree(last.PackagesLock)
            /\ last' = [last EXCEPT !.PackagesLock = w]
            /\ conns' = [conns EXCEPT ![w].pc = "check"]
    /\ AssembleFrame

\* if p.Packages[v.Name] == nil
CheckName(w) ==
    /\ conns[w].pc = "check"
    /\ conns' = [conns EXCEPT ![w].pc = "put",
                              ![w].isNil = VersionListOf(last.versionLists, w)[conns[w].i].Name
                                              \notin DOMAIN last.Packages]
    /\ UNCHANGED last
    /\ AssembleFrame

\* p.Packages[v.Name] = make(map...) where it was nil, and
\* p.Packages[v.Name][v.Version] = v
PutInto(packages, v, isNil) ==
    LET versions == IF isNil \/ v.Name \notin DOMAIN packages THEN <<>> ELSE packages[v.Name]
    IN  [n \in DOMAIN packages \cup {v.Name} |->
            IF n = v.Name
            THEN [k \in DOMAIN versions \cup {v.Version} |->
                     IF k = v.Version THEN v ELSE versions[k]]
            ELSE packages[n]]

PutVersion(w) ==
    /\ conns[w].pc = "put"
    /\ last' = [last EXCEPT !.Packages =
                   PutInto(@, VersionListOf(last.versionLists, w)[conns[w].i], conns[w].isNil)]
    /\ conns' = [conns EXCEPT ![w].pc = "unlock"]
    /\ AssembleFrame

\* p.PackagesLock.Unlock()
UnlockPackages(w) ==
    /\ conns[w].pc = "unlock"
    /\ last' = [last EXCEPT !.PackagesLock = IF @ = w THEN 0 ELSE @]
    /\ conns' = [conns EXCEPT ![w].pc = "lock", ![w].i = @ + 1]
    /\ AssembleFrame

\* the deferred <-guardChan
EndFill(w) ==
    /\ conns[w].pc = "sent"
    /\ last' = [last EXCEPT !.guardChan = @ - 1]
    /\ conns' = [conns EXCEPT ![w].pc = "done"]
    /\ AssembleFrame

NextAssemble ==
    \/ \E w \in DOMAIN conns : StartFill(w)
    \/ \E w \in DOMAIN conns : LockOrSend(w)
    \/ \E w \in DOMAIN conns : CheckName(w)
    \/ \E w \in DOMAIN conns : PutVersion(w)
    \/ \E w \in DOMAIN conns : UnlockPackages(w)
    \/ \E w \in DOMAIN conns : EndFill(w)

SpecAssemble == InitAssemble /\ [][NextAssemble]_vars

\* GetPackageInfoList has received the result of every goroutine
AllReceived == last.received = Len(conns)

\* every record the repositories gave
RecordsProduced ==
    UNION {{VersionListOf(last.versionLists, w)[i] : i \in 1..Len(last.versionLists[w])} :
              w \in 1..Len(last.versionLists)}

InPackages(v) ==
    /\ v.Name \in DOMAIN last.Packages
    /\ v.Version \in DOMAIN last.Packages[v.Name]
    /\ last.Packages[v.Name][v.Version] = v

\* C32: when GetPackageInfoList returns, every record that a repository
\* gave is in Packages under its name and version, and the map is looked
\* at and written only by the goroutine that holds the lock.
C32_EveryRecordAssembled ==
    /\ AllReceived => \A v \in RecordsProduced : InPackages(v)
    /\ \A w \in DOMAIN conns :
          conns[w].pc \in {"check", "put", "unlock"} => last.PackagesLock = w

\* no two records of the call have the same name and version
DistinctKeys ==
    \A v1 \in RecordsProduced : \A v2 \in RecordsProduced :
       (v1.Name = v2.Name /\ v1.Version = v2.Version) => v1 = v2

\* C32, amended: when GetPackageInfoList returns, Packages has under every
\* name and version for which a repository gave a record one of the
\* records given for them (the record itself when no other repository gave
\* one for the same name and version) and nothing else, and the map is
\* looked at and written only by the goroutine that holds the lock.
C32_RecordPerKey ==
    /\ AllReceived =>
          /\ \A v \in RecordsProduced :
                /\ v.Name \in DOMAIN last.Packages
                /\ v.Version \in DOMAIN last.Packages[v.Name]
                /\ last.Packages[v.Name][v.Version].Name = v.Name
                /\ last.Packages[v.Name][v.Version].Version = v.Version
          /\ DistinctKeys => \A v \in RecordsProduced : InPackages(v)
    /\ \A n \in DOMAIN last.Packages : \A k \in DOMAIN last.Packages[n] :
          last.Packages[n][k] \in RecordsProduced
    /\ \A w \in DOMAIN conns :
          conns[w].pc \in {"check", "put", "unlock"} => last.PackagesLock = w

\* two repositories that gave versions of one package, both assembled
C32_Witness ==
    /\ AllReceived
    /\ Len(conns) = 2
    /\ DistinctKeys
    /\ PkgX \in DOMAIN last.Packages
    /\ {last.Packages[PkgX][k].uuid : k \in DOMAIN last.Packages[PkgX]}
          = {<<"u", "1">>, <<"u", "2">>}

(***************************************************************************)
(* The lookups of the two caches when an entry does not hold what its key  *)
(* says: no path of the program stores such an entry, the branches that    *)
(* test item.([]byte) and item.(cachedProjectList) are there for it.       *)
(* BreakEntry puts one under a key, the lookups then find it.              *)
(***************************************************************************)
BrokenEntry == [CachedBytes(<<>>) EXCEPT !.type = "broken"]

LookupOps ==
    {"fetchJsonFile", "GetArchive", "GetComposerArchive", "PutNpmArchiveToCache",
     "fetchProjectList"}

\* the cache entry each lookup reads
LookupKey(op) ==
    CASE op = "fetchJsonFile" -> jsonCacheKey(DecodeProject(PJ1), C1Ref, npmMetadataFile)
      [] op = "GetArchive" -> Join(<<<<KindComposer>>, U2, C2Ref>>)
      [] op = "GetComposerArchive" -> archiveKey(U2, C2Ref)
      [] op = "PutNpmArchiveToCache" -> archiveKey(U1, C1Ref)
      [] op = "fetchProjectList" -> getProjectListCacheKey("tA")

InArchiveCache(op) == op \in {"GetComposerArchive", "PutNpmArchiveToCache"}

\* the error and the two caches a lookup leaves
LookupOutcome(op, cc, ac, t) ==
    CASE op = "fetchJsonFile" ->
            Bind(fetchJsonFileAt(cc, "tA", "up", DecodeProject(PJ1), C1Ref, npmMetadataFile),
                 LAMBDA file : <<file.err, file.cc, ac>>)
      [] op = "GetArchive" ->
            Bind(GetArchive(cc, "tA", "up", KindComposer, U2, C2Ref, t),
                 LAMBDA got : <<got.err, got.cc, ac>>)
      [] op = "GetComposerArchive" ->
            Bind(GetComposerArchive(ac, Body("bytes", ArchiveBytes(PJ2.id, C2Ref)), U2, C2Ref),
                 LAMBDA pkg : <<pkg.err, cc, pkg.ac>>)
      [] op = "PutNpmArchiveToCache" ->
            Bind(PutNpmArchiveToCache(ac, Body("bytes", ArchiveBytes(PJ1.id, C1Ref)), U1, C1Ref),
                 LAMBDA put : <<put.err, cc, put.ac>>)
      [] op = "fetchProjectList" ->
            Bind(fetchProjectList(cc, "tA", "up", t), LAMBDA pl : <<pl.err, pl.cc, ac>>)

\* found: what was under the key when the lookup came; left: what is there
\* when it returns
CacheLookup(op, found, err, left) == [op |-> op, found |-> found, err |-> err, left |-> left]

TypeUnder(cc, ac, op) ==
    IF InArchiveCache(op)
    THEN (IF CacheHas(ac, LookupKey(op)) THEN ac[LookupKey(op)].type ELSE "none")
    ELSE (IF CacheHas(cc, LookupKey(op)) THEN cc[LookupKey(op)].type ELSE "none")

InitCorrupt ==
    /\ client = Nil
    /\ last = CacheLookup("none", "none", NoErr, "none")
    /\ clientCache = <<>>
    /\ archiveCache = <<>>
    /\ now = 0
    /\ conns = <<>>

BreakEntry ==
    \E op \in LookupOps :
       /\ IF InArchiveCache(op)
          THEN /\ archiveCache' = CacheAdd(archiveCache, LookupKey(op), BrokenEntry)
               /\ UNCHANGED clientCache
          ELSE /\ clientCache' = CacheAdd(clientCache, LookupKey(op), BrokenEntry)
               /\ UNCHANGED archiveCache
       /\ UNCHANGED <<client, last, now, conns>>

DoCacheLookup ==
    \E op \in LookupOps :
       \E out \in {LookupOutcome(op, clientCache, archiveCache, now)} :
          /\ last' = CacheLookup(op, TypeUnder(clientCache, archiveCache, op), out[1],
                                 TypeUnder(out[2], out[3], op))
          /\ clientCache' = out[2]
          /\ archiveCache' = out[3]
          /\ UNCHANGED <<client, now, conns>>

NextCorrupt == BreakEntry \/ DoCacheLookup

SpecCorrupt == InitCorrupt /\ [][NextCorrupt]_vars

\* C33: a lookup that finds an entry of the wrong type under its key drops
\* it, fetches what it was asked for from the upstream and returns without
\* error, the cache holding a good entry again.
C33_BrokenEntryIsMiss ==
    last.found = "broken" => last.err = NoErr /\ last.left \in {"bytes", "cachedProjectList"}

\* C34: a repack that has returned, with its archive or with an error, has
\* left none of its scratch files and directories behind.
C34_ScratchRemoved ==
    \A p \in 1..2 : conns[p].pc \in {"done", "failed"} => conns[p].scratch = {}

(***************************************************************************)
(* fetchJsonFile called again and again for the metadata files of two      *)
(* projects, at a commit and at master, with the upstream up or lost,      *)
(* while the LRU drops entries.                                            *)
(***************************************************************************)
\* the bytes under json_<id>_<ref> in the cache, if any
BytesUnder(cc, p, ref, path) ==
    IF CacheHas(cc, jsonCacheKey(p, ref, path))
    THEN Some(cc[jsonCacheKey(p, ref, path)].bytes) ELSE Nil

\* cached: the bytes in the cache when the call came; left: when it returned
FileCall(op, pid, ref, path, health, cached, err, content, asked, left) ==
    [op |-> op, pid |-> pid, ref |-> ref, path |-> path, health |-> health,
     cached |-> cached, err |-> err, content |-> content, asked |-> asked, left |-> left]

InitFiles ==
    /\ client = Nil
    /\ last = FileCall("none", 0, <<>>, <<>>, "up", Nil, NoErr, Nil, FALSE, Nil)
    /\ clientCache = <<>>
    /\ archiveCache = <<>>
    /\ now = 0
    /\ conns = <<>>

DoFetchJsonFile ==
    \E pj \in {PJ1, PJ2}, ref \in {C1Ref, Master}, health \in {"up", "lost"},
       path \in {npmMetadataFile, composerMetadataFile} :
       \E file \in {fetchJsonFileAt(clientCache, "tA", health, DecodeProject(pj), ref, path)} :
          /\ last' = FileCall("fetchJsonFile", pj.id, ref, path, health,
                              BytesUnder(clientCache, DecodeProject(pj), ref, path),
                              file.err, file.content, file.asked,
                              BytesUnder(file.cc, DecodeProject(pj), ref, path))
          /\ clientCache' = file.cc
          /\ UNCHANGED <<client, archiveCache, now, conns>>

\* the LRU drops an entry to make room
LruEvictFile ==
    /\ \E k \in DOMAIN clientCache : clientCache' = CacheRemove(clientCache, k)
    /\ UNCHANGED <<client, last, archiveCache, now, conns>>

NextFiles == DoFetchJsonFile \/ LruEvictFile

SpecFiles == InitFiles /\ [][NextFiles]_vars

\* C35: a call at a commit that finds the bytes an earlier call has fetched
\* for the project and the commit returns them and asks the upstream for
\* nothing; a call that fetches at a commit leaves the bytes in the cache;
\* a call at master always asks the upstream and leaves nothing there.
C35_ManifestCachedUntilEvicted ==
    /\ last.op = "fetchJsonFile" =>
          /\ (last.ref # Master /\ last.cached # Nil) =>
                ~last.asked /\ last.err = NoErr /\ last.content = last.cached[1]
          /\ (last.ref # Master /\ last.cached = Nil) => last.asked
          /\ (last.ref # Master /\ last.asked /\ last.err = NoErr) =>
                last.left = Some(last.content)
          /\ last.ref = Master => last.asked /\ last.left = Nil
    /\ \A k \in DOMAIN clientCache : KeyParts(k)[3] # Master

\* a call at a commit served from the cache while the upstream is lost
C35_Witness ==
    /\ last.op = "fetchJsonFile"
    /\ last.ref = C1Ref
    /\ last.health = "lost"
    /\ last.cached # Nil
    /\ ~last.asked
    /\ last.err = NoErr
    /\ last.content = Some(FileAt(last.pid, last.path))

\* C37: the bytes fetchJsonFile returns are those of the file at the path
\* asked for, of the project and at the ref asked for.
C37_BytesOfRequestedPath ==
    (last.op = "fetchJsonFile" /\ last.err = NoErr) =>
       /\ FileExists(last.pid, last.path)
       /\ last.content = Some(FileAt(last.pid, last.path))

\* ---------------------------------------------------------------------------
\* NpmPackage.fillVersions over one connection: every tag worker calls
\* c.GetArchive(KindNpm, src.UUID, tag.Reference); on a cache miss GetArchive
\* runs c.fetchBasicData(kind), which rebuilds the connection's
\* packageRepoList in place (filterProjectList: make, then one append per
\* item received), and then c.findPackageRepoByUUID reads that list.
\* last holds the fan-out and the connection's shared list, conns the workers.

RaceTags == <<ClientTag(V100, C1Ref, <<>>), ClientTag(V110, C3Ref, <<>>)>>

RaceCPUs == {1, 2}

RaceArchiveKey(ref) == Join(<<<<KindNpm>>, U1, ref>>)

\* the state GetRepo leaves before fillVersions starts
RaceBasic == fetchBasicData(<<>>, "tA", "tagged", KindNpm, 0)

RaceFanOut(numCPU, guardChan, packageRepoList, received, versions) ==
    [numCPU |-> numCPU, guardChan |-> guardChan, packageRepoList |-> packageRepoList,
     received |-> received, versions |-> versions]

\* pending: the items filterProjectList has still to append; found: the
\* outcome of the worker's GetArchive
RaceWorker(pc, pending, found) == [pc |-> pc, pending |-> pending, found |-> found]

CachedArchives(refs) ==
    LET RECURSIVE Put(_, _)
        Put(cc, i) == IF i > Len(RaceTags) THEN cc
                      ELSE Put(IF RaceTags[i].Reference \in refs
                               THEN CacheAdd(cc, RaceArchiveKey(RaceTags[i].Reference),
                                             CachedBytes(ArchiveBytes(PJ1.id, RaceTags[i].Reference)))
                               ELSE cc, i + 1)
    IN  Put(RaceBasic.cc, 1)

InitRace ==
    /\ client = Nil
    /\ \E numCPU \in RaceCPUs :
          last = RaceFanOut(numCPU, <<>>, RaceBasic.packageRepoList, 0, {})
    /\ \E refs \in SUBSET {RaceTags[i].Reference : i \in DOMAIN RaceTags} :
          clientCache = CachedArchives(refs)
    /\ archiveCache = <<>>
    /\ now = 0
    /\ conns = [i \in DOMAIN RaceTags |-> RaceWorker("idle", <<>>, FALSE)]

RaceStep(w, pc, pending, found) ==
    conns' = [conns EXCEPT ![w] = RaceWorker(pc, pending, found)]

\* guardChan <- true
RaceAcquire(w) ==
    /\ conns[w].pc = "idle"
    /\ CanSend(last.guardChan, last.numCPU)
    /\ last' = [last EXCEPT !.guardChan = Append(@, TRUE)]
    /\ RaceStep(w, "lookup", <<>>, FALSE)
    /\ UNCHANGED <<client, clientCache, archiveCache, now>>

\* GetArchive: globalCache.Get(cacheKey); on a miss fetchProjectList and
\* fetchSourceRepoList, which leave what GetRepo had fetched
RaceLookup(w) ==
    /\ conns[w].pc = "lookup"
    /\ IF CacheHas(clientCache, RaceArchiveKey(RaceTags[w].Reference))
       THEN RaceStep(w, "send", <<>>, TRUE)
       ELSE RaceStep(w, "make", <<>>, FALSE)
    /\ UNCHANGED <<client, last, clientCache, archiveCache, now>>

\* filterProjectList: c.packageRepoList = make([]*containerItem, 0)
RaceMake(w) ==
    /\ conns[w].pc = "make"
    /\ last' = [last EXCEPT !.packageRepoList = <<>>]
    /\ RaceStep(w, "append", RaceBasic.packageRepoList, FALSE)
    /\ UNCHANGED <<client, clientCache, archiveCache, now>>

\* filterProjectList: c.packageRepoList = append(c.packageRepoList, item)
RaceAppend(w) ==
    /\ conns[w].pc = "append"
    /\ conns[w].pending # <<>>
    /\ last' = [last EXCEPT !.packageRepoList = Append(@, Head(conns[w].pending))]
    /\ RaceStep(w, "append", Tail(conns[w].pending), FALSE)
    /\ UNCHANGED <<client, clientCache, archiveCache, now>>

\* GetArchive: findPackageRepoByUUID, c.client.GetArchive, globalCache.Add
RaceFind(w) ==
    /\ conns[w].pc = "append"
    /\ conns[w].pending = <<>>
    /\ \E packageRepo \in {findPackageRepoByUUID(last.packageRepoList, U1)} :
          IF packageRepo = Nil
          THEN /\ RaceStep(w, "send", <<>>, FALSE)
               /\ UNCHANGED clientCache
          ELSE \E got \in ClientGetArchive(
                              UpstreamArchive("tagged", "tA", packageRepo[1].Project.ID,
                                              RaceTags[w].Reference), NoPages) :
                  /\ RaceStep(w, "send", <<>>, got.err = NoErr)
                  /\ clientCache' = IF got.err = NoErr
                                    THEN CacheAdd(clientCache,
                                                  RaceArchiveKey(RaceTags[w].Reference),
                                                  CachedBytes(got.val))
                                    ELSE clientCache
    /\ UNCHANGED <<client, last, archiveCache, now>>

\* versionChan <- v (nil when GetArchive failed); p.Versions[v.Version] = *v
RaceSend(w) ==
    /\ conns[w].pc = "send"
    /\ last' = [last EXCEPT !.received = @ + 1,
                            !.versions = IF conns[w].found
                                         THEN @ \cup {RaceTags[w].Name} ELSE @]
    /\ RaceStep(w, "sent", <<>>, conns[w].found)
    /\ UNCHANGED <<client, clientCache, archiveCache, now>>

\* defer func() { <-guardChan }()
RaceRelease(w) ==
    /\ conns[w].pc = "sent"
    /\ last' = [last EXCEPT !.guardChan = Tail(@)]
    /\ RaceStep(w, "done", <<>>, conns[w].found)
    /\ UNCHANGED <<client, clientCache, archiveCache, now>>

NextRace ==
    \E w \in DOMAIN conns :
       \/ RaceAcquire(w)
       \/ RaceLookup(w)
       \/ RaceMake(w)
       \/ RaceAppend(w)
       \/ RaceFind(w)
       \/ RaceSend(w)
       \/ RaceRelease(w)

SpecRace == InitRace /\ [][NextRace]_vars

\* C36: the tag workers of one package-document request do not interfere:
\* when the collecting loop has received every worker's result, every tag
\* (each parses as a semantic version, every upstream fetch succeeds) is in
\* versions.
C36_WorkersDoNotInterfere ==
    last.received = Len(RaceTags) =>
       last.versions = {RaceTags[i].Name : i \in DOMAIN RaceTags}

\* ---------------------------------------------------------------------------
\* The repackaged-archive cache of helpers/archive.go under both forms:
\* PutNpmArchiveToCache, GetNpmArchiveFromCache and GetComposerArchive on the
\* one archiveCache, for uuids served under both kinds.

FormCall(op, uuid, ref, err, archive) ==
    [op |-> op, uuid |-> uuid, ref |-> ref, err |-> err, archive |-> archive]

FormTargets == {<<U1, PJ1.id>>, <<U2, PJ2.id>>}

FormRefs == {C1Ref, C2Ref, Master}

\* the tar.gz the upstream gives for the project at ref
FormSource(pid, ref) == Body("bytes", ArchiveBytes(pid, ref))

InitForms ==
    /\ client = Nil
    /\ last = FormCall("none", <<>>, <<>>, NoErr, Nil)
    /\ clientCache = <<>>
    /\ archiveCache = <<>>
    /\ now = 0
    /\ conns = <<>>

FormReturn(op, uuid, ref, res) ==
    /\ last' = FormCall(op, uuid, ref, res.err, res.archive)
    /\ archiveCache' = res.ac
    /\ UNCHANGED <<client, clientCache, now, conns>>

DoPutNpmArchiveToCache ==
    \E target \in FormTargets, ref \in FormRefs :
       \E res \in {PutNpmArchiveToCache(archiveCache, FormSource(target[2], ref),
                                        target[1], ref)} :
          FormReturn("PutNpmArchiveToCache", target[1], ref, res)

DoGetNpmArchiveFromCache ==
    \E target \in FormTargets, ref \in FormRefs :
       \E res \in {GetNpmArchiveFromCache(archiveCache, target[1], ref)} :
          FormReturn("GetNpmArchiveFromCache", target[1], ref, res)

DoGetComposerArchive ==
    \E target \in FormTargets, ref \in FormRefs :
       \E res \in {GetComposerArchive(archiveCache, FormSource(target[2], ref),
                                      target[1], ref)} :
          FormReturn("GetComposerArchive", target[1], ref, res)

LruEvictForm ==
    /\ \E k \in DOMAIN archiveCache : archiveCache' = CacheRemove(archiveCache, k)
    /\ UNCHANGED <<client, last, clientCache, now, conns>>

NextForms ==
    \/ DoPutNpmArchiveToCache
    \/ DoGetNpmArchiveFromCache
    \/ DoGetComposerArchive
    \/ LruEvictForm

SpecForms == InitForms /\ [][NextForms]_vars

FormOf(archive) == archive[1].v.fmt

\* C38: the archive cache never gives one form the bytes of the other: an
\* archive returned by PutNpmArchiveToCache or GetNpmArchiveFromCache is a
\* gzipped tar and one returned by GetComposerArchive is a zip, whatever was
\* cached before for the same (uuid, ref).
C38_FormsKeptApart ==
    (last.op # "none" /\ last.err = NoErr) =>
       FormOf(last.archive) = IF last.op = "GetComposerArchive" THEN "zip" ELSE "tgz"

\* ---------------------------------------------------------------------------
\* fetchProjectList and the cache, step by step under SpecBoot

\* a step of fetchBasicData, for the token of the call
BootStep == last'.op = "fetchBasicData" /\ now' = now

BootKey == getProjectListCacheKey(last'.token)

\* the upstream list fetch of the step failed / succeeded
BootFetchFailed == BootStep /\ ~last'.cached /\ last'.health = "lost"

BootFetched == BootStep /\ ~last'.cached /\ last'.health # "lost"

\* the entry of the call's token is new or has changed
BootStored ==
    /\ CacheHas(clientCache', BootKey)
    /\ ~CacheHas(clientCache, BootKey) \/ clientCache'[BootKey] # clientCache[BootKey]

\* the list is stored exactly when it was fetched, found or not; a call
\* served from the cache changes nothing and fails as the first did
BootStoresFetched ==
    /\ (BootStep /\ BootStored) => BootFetched
    /\ BootFetched =>
          /\ CacheHas(clientCache', BootKey)
          /\ clientCache'[BootKey] =
                cachedProjectList(now + TTL, last'.visibleProjectList, last'.token)
    /\ (BootStep /\ last'.cached) =>
          /\ clientCache' = clientCache
          /\ last'.visibleProjectList = clientCache[BootKey].ProjectList
          /\ NoContainerIn(last'.visibleProjectList) =>
                last'.err = "Project with namespace not found"

\* the cache as the lookup of the step leaves it before anything is fetched:
\* an entry found expired is removed (a fresh one is served, so a step that
\* fetches found none or an expired one)
BootAfterLookup ==
    IF CacheHas(clientCache, BootKey) /\ ~last'.cached
    THEN CacheRemove(clientCache, BootKey) ELSE clientCache

\* C39: the list is stored only when the upstream fetch succeeded, and is
\* stored before the search for the catalogue project, so that calls served
\* from the cache keep failing without a fetch until the entry expires or
\* is cleared; a failed upstream fetch leaves the cache as the lookup left
\* it, with nothing stored and no other entry touched.
C39_FailedFetchStoresNothing ==
    [][BootStoresFetched /\ (BootFetchFailed => clientCache' = BootAfterLookup)]_vars

\* tC, who does not see the catalogue's project, fails again from the list
\* stored by an earlier call: the entry is older than this call and the
\* upstream, though up, was not asked
C39_Witness ==
    /\ last.op = "fetchBasicData"
    /\ last.token = "tC"
    /\ last.cached
    /\ last.health = "up"
    /\ last.err = "Project with namespace not found"
    /\ CacheHas(clientCache, getProjectListCacheKey("tC"))
    /\ clientCache[getProjectListCacheKey("tC")].Expire < now + TTL

\* ---------------------------------------------------------------------------
\* GetRepoList over a connection whose packageRepoList holds more than one
\* repository of the kind asked for, and the lookup of a package by name
\* that NpmRegistry.GetPackageInfo makes on its result.

\* the repositories u1 (project Lib) and u2 (project Thing) as
\* filterProjectList binds them
RepoA == fetchBasicData(<<>>, "tA", "up", KindNpm, 0).packageRepoList[1]

RepoB == fetchBasicData(<<>>, "tA", "up", KindComposer, 0).packageRepoList[1]

KindMatchedLists == {<<RepoA>>, <<RepoA, RepoB>>, <<RepoB, RepoA>>}

WholeHealth == {"up", "tagged"} \cup FaultsOfThing

\* the package names of the two repositories, and one nobody has
WholeNames ==
    {GetString(r.Metadata, "name") :
        r \in {fetchRepoData(<<>>, "tA", "up", item).repo[1] : item \in {RepoA, RepoB}}}
    \cup {<<"n", "o">>}

WholeCall(op, list, health, name, err, repos, found) ==
    [op |-> op, packageRepoList |-> list, health |-> health, name |-> name,
     err |-> err, list |-> repos, found |-> found]

InitWhole ==
    /\ client = Nil
    /\ last = WholeCall("none", <<>>, "up", <<>>, NoErr, <<>>, NoErr)
    /\ clientCache = <<>>
    /\ archiveCache = <<>>
    /\ now = 0
    /\ conns = <<>>

\* GetRepoList after fetchBasicData, then findPackageByName(name), retried
\* without namespace
DoGetRepoListOf ==
    \E list \in KindMatchedLists, health \in WholeHealth, name \in WholeNames :
       \E got \in {fetchRepoDataList(clientCache, "tA", health, list)} :
          \E project \in {findProject(name, got,
                                       fetchRepoDataList(got.cc, "tA", health, list))} :
             /\ last' = WholeCall("GetRepoList", list, health, name, got.err, got.list,
                                  project.err)
             /\ clientCache' = project.cc
             /\ UNCHANGED <<client, archiveCache, now, conns>>

LruEvictWhole ==
    /\ \E k \in DOMAIN clientCache : clientCache' = CacheRemove(clientCache, k)
    /\ UNCHANGED <<client, last, archiveCache, now, conns>>

NextWhole == DoGetRepoListOf \/ LruEvictWhole

SpecWhole == InitWhole /\ [][NextWhole]_vars

\* the tag-list fetch or the master manifest fetch of Thing fails
ThingFails == last.health \in FaultsOfThing

HoldsThing ==
    \E i \in 1..Len(last.packageRepoList) : last.packageRepoList[i].UUID = U2

\* C40: GetRepoList fails as a whole, with no repository, when the
\* tag-list fetch or the master manifest fetch of one repository of its
\* list fails, and the lookup of any package by name fails with it, the
\* package of the other repository included; when no such fetch fails it
\* gives every repository of the list.
C40_OneFailureFailsAll ==
    last.op = "GetRepoList" =>
       IF ThingFails /\ HoldsThing
       THEN /\ last.err # NoErr
            /\ last.list = <<>>
            /\ last.found = last.err
       ELSE /\ last.err = NoErr
            /\ Len(last.list) = Len(last.packageRepoList)

\* the package of Lib is asked for, Lib's data was fetched first and
\* Thing's tag list could not be fetched
C40_Witness ==
    /\ last.op = "GetRepoList"
    /\ last.packageRepoList = <<RepoA, RepoB>>
    /\ last.health = "tagsLostThing"
    /\ last.name = GetString(fetchRepoData(<<>>, "tA", "up", RepoA).repo[1].Metadata, "name")
    /\ last.err # NoErr
    /\ last.found # NoErr

====
